---- MODULE Spec2Model ----
(***************************************************************************)
(* Model of the signed-request client of robinhood_api_trading:            *)
(*   src/src/utils/rate_limiter.py     RateLimiter                         *)
(*   src/src/api/robinhood_client.py   RobinhoodClient._make_request, the  *)
(*                                     circuit breaker, the order calls    *)
(* Time is the value of time.time(), in whole seconds.                     *)
(***************************************************************************)
EXTENDS Integers, Sequences, FiniteSets, TLC

(***************************************************************************)
(* Configuration (src/src/config/settings.py).  The values are those of a  *)
(* config.json with retry_backoff_base 1, retry_backoff_max 3,             *)
(* circuit_breaker_threshold 3 and circuit_breaker_timeout 4; retry_max    *)
(* keeps its default.  rate_limit_per_minute is chosen in Init.            *)
(***************************************************************************)
RETRY_MAX == 3
RETRY_BACKOFF_BASE == 1
RETRY_BACKOFF_MAX == 3
CIRCUIT_BREAKER_THRESHOLD == 3
CIRCUIT_BREAKER_TIMEOUT == 4

\* The length of the limiter's window: "now - 60", "60 - (now - ts[0])".
WINDOW == 60

(***************************************************************************)
(* Bounds of the model.                                                    *)
(***************************************************************************)
\* largest rate_limit_per_minute tried (the smallest is -1)
MaxRate == 2
\* number of RateLimiter.wait() calls in the limiter specifications
MaxWaits == 4

\* number of public client operations in the client specification
MaxOps == 2

\* Decimals of the model are scaled down: the decimal context carries Prec
\* significant digits (28 in CPython's default context) and quantities are
\* quantized to Places fractional digits (8 in the code)
Prec == 3
Places == 1
\* largest quote amount in dollars, and largest plain coefficient of a price
MaxAmount == 3
MaxCoef == 12

\* the strategy engine: clock units per day, the last clock value, the number
\* of strategy executions, and the largest max_purchases and frequency_days
DayLength == 2
MaxTime == 4
MaxExecs == 3
MaxPurchases == 2
MaxFrequency == 2

\* the engine's registry and polling loop: the number of registry operations
\* and ticks
MaxBotOps == 4

\* the largest number of entries of a dict handed to StrategyStorage.save
MaxConfigs == 2

\* the longest str put in front of a suffix as an argument of
\* normalize_symbol_to_usd
MaxSymbolLen == 3

\* StopLossConfig and DCAConfig (automated_strategies.py, lines 38-40 and 52):
\* the defaults of the dataclasses; prices are in tenths of a dollar
stop_loss_percentage == 5
profit_target_percentage == 10
position_size_usd == 100
amount_per_purchase == 50
\* start(), line 316: time.sleep(60)
PollSeconds == 60

VARIABLES
    now,             \* time.time()
    max_per_minute,  \* RateLimiter.max_per_minute
    timestamps,      \* RateLimiter._timestamps (a deque, oldest first)
    rl_pc,           \* per caller: its position in RateLimiter.wait()
    rl_now,          \* per caller: the local "now" of wait()
    rl_wake,         \* per caller: the clock value that ends its time.sleep
    rl_calls,        \* number of wait() calls started
    recorded,        \* history: every timestamp wait() has appended
    failure_count,       \* RobinhoodClient.failure_count
    circuit_open_until,  \* RobinhoodClient.circuit_open_until
    pc,              \* position of the client's thread
    attempts,        \* _make_request: the local "attempts"
    kwargs,          \* _make_request: client_order_id of kwargs["json"], 0 without json
    result,          \* the value the last _make_request returned
    op,              \* the public operation in progress
    ops,             \* number of public operations started
    uuids,           \* number of uuid.uuid4() values drawn
    call,            \* history of the current (or last) _make_request call
    fails_since_ok,  \* history: failed attempts since the last 200/201
    last_fail,       \* history: clock value of the last failed attempt, -1 if none
    open_set_fails,  \* history: fails_since_ok when circuit_open_until was last set
    rejections,      \* history: number of calls the open breaker rejected
    posts,           \* history: <<operation, client_order_id>> of every order request sent
    client_error_seen,  \* history: some response so far was a 4xx other than 429
    returned,        \* history: what the public operation that just ended returned (or raised)
    API_KEY,             \* settings.API_KEY: "set" or "absent"
    BASE64_PRIVATE_KEY,  \* settings.BASE64_PRIVATE_KEY: "valid", "malformed" or "absent"
    quote_amount,    \* place_market_buy_order: Decimal(quote_amount)
    current_price,   \* place_market_buy_order: Decimal(price_data['price'])
    asset_quantity,  \* place_market_buy_order: asset_quantity_rounded, once computed
    buy_pc,          \* place_market_buy_order: "priced", "posting", "invalid" or "raised"
    holding,         \* the account: quantity_available_for_trading of the symbol
    state,           \* StateManager._state, for the symbol of the strategies
    state_file,      \* the state file on disk
    dca_config,      \* the DCAConfig of the engine
    exec,            \* history: the strategy execution that just ended
    execs,           \* number of strategy executions so far
    dca_start,       \* history: purchase_count when the engine started
    configs,         \* AutomatedTradingBot.configs (a dict, in insertion order)
    strategies,      \* AutomatedTradingBot.strategies (a dict, in insertion order)
    last_run,        \* AutomatedTradingBot.last_run
    running,         \* AutomatedTradingBot.running
    storage_path,    \* the strategies file on disk
    loop_pc,         \* start(): "stopped", "top" (line 301), "iter" (line 303) or "sleep" (line 316)
    tick,            \* start(): the local "now" of the tick
    todo,            \* start(): the items the for loop has still to visit
    step,            \* history: the last visit of the for loop
    last_exec,       \* history: per key, the tick time of its last finished execution
    reg,             \* history: the last operation on the registry
    bot_ops,         \* number of engine operations and ticks so far
    save_pc,         \* StrategyStorage.save: "idle", "open", "writing", "closed", "raised" or "interrupted"
    saved,           \* history: the configs the last save was called with
    previous,        \* history: the strategies file before the last save
    sym_arg,         \* the argument of normalize_symbol_to_usd
    sym_out,         \* what it returned
    sym_again,       \* what it returned for sym_out
    sym_pc,          \* "none", "once" or "twice": the calls made
    trade,           \* history: the last call of TradingBot.buy_crypto or sell_crypto
    manager,         \* StateManager._state of the engine's state manager, all symbols
    state_path,      \* the state file on disk, all symbols
    expected,        \* history: per symbol, the entry price and DCA record last written
    fresh            \* history: what the last load of a new store, and of a new engine, gave

\* the limiter's callers and history, used by the limiter specifications only
rlVars == <<rl_pc, rl_now, rl_wake, rl_calls, recorded>>

\* the client
clVars == <<failure_count, circuit_open_until, pc, attempts, kwargs, result, op, ops,
            uuids, call, fails_since_ok, last_fail, open_set_fails, rejections, posts,
            client_error_seen, returned>>

\* the credentials of settings.py
keyVars == <<API_KEY, BASE64_PRIVATE_KEY>>

\* the locals of place_market_buy_order, lines 278-289
qtyVars == <<quote_amount, current_price, asset_quantity, buy_pc>>

\* the strategy engine, its state manager and the account it trades
engVars == <<holding, state, state_file, dca_config, exec, execs, dca_start>>

\* the strategy registry of the engine, its strategies file and its polling loop
botVars == <<configs, strategies, last_run, running, storage_path, loop_pc, tick, todo,
             step, last_exec, reg, bot_ops>>

\* StrategyStorage.save and load seen step by step
storeVars == <<save_pc, saved, previous, fresh>>

\* the StateManager over every symbol
smVars == <<manager, state_path, expected>>

\* normalize_symbol_to_usd called on its own
symVars == <<sym_arg, sym_out, sym_again, sym_pc>>

\* TradingBot.buy_crypto and sell_crypto
tradeVars == <<trade>>

\* what neither the limiter nor the retry loop of the client writes
restVars == <<keyVars, qtyVars, engVars, botVars, storeVars, smVars, symVars, tradeVars>>

vars == <<now, max_per_minute, timestamps, rlVars, clVars, restVars>>

Max(a, b) == IF a >= b THEN a ELSE b
Min(a, b) == IF a <= b THEN a ELSE b

(***************************************************************************)
(* RateLimiter                                                             *)
(***************************************************************************)
\* RateLimiter.__init__: self.max_per_minute = max(0, int(max_per_minute))
RateLimiterInit(arg) == Max(0, arg)

\* the loop condition of the pruning loop of wait()
PruneTest(ts, t) == ts /= <<>> /\ ts[1] < t - WINDOW

\* sleep_time = 60 - (now - self._timestamps[0])
SleepTime(ts, t) == WINDOW - (t - ts[1])

Callers == {1, 2}

\* the readings of the clock that the limiter specifications draw from: the
\* start, and the values just before, at and just after one and two windows
ClockValues == {0, 1, WINDOW - 1, WINDOW, WINDOW + 1, 2 * WINDOW, 2 * WINDOW + 1}

\* the history of a _make_request call before it starts
\*   start, open_at_start, ts_at_start: the clock, circuit_open_until and the
\*       limiter's deque when the call was entered
\*   tripped: at least CIRCUIT_BREAKER_THRESHOLD attempts had failed in a row,
\*       the last of them less than CIRCUIT_BREAKER_TIMEOUT seconds before
\*   rejected: the call returned at line 139
\*   sent, slots: requests sent, limiter timestamps appended
\*   slept: the backoff sleeps, in order; limited: seconds slept inside the
\*       limiter; waited: those of them after the first attempt; net: seconds
\*       spent in requests
\*   last: the class of the last outcome; ok_at, ok_body: the attempt that
\*       first received status 200 or 201, and its body
NoCall ==
    [start |-> 0, open_at_start |-> 0, ts_at_start |-> <<>>, tripped |-> FALSE,
     rejected |-> FALSE, sent |-> 0, slots |-> 0, slept |-> <<>>, limited |-> 0,
     waited |-> 0, net |-> 0, last |-> "none", ok_at |-> 0, ok_body |-> "None"]

\* no public operation has returned yet
NoReturn == [op |-> "none", value |-> "none", failed |-> FALSE, sent |-> 0]

\* RobinhoodClient.__init__, lines 40-43, and the locals of the model
ClientFields ==
    /\ failure_count = 0
    /\ circuit_open_until = 0
    /\ attempts = 0
    /\ kwargs = 0
    /\ result = "None"
    /\ op = "none"
    /\ ops = 0
    /\ uuids = 0
    /\ call = NoCall
    /\ fails_since_ok = 0
    /\ last_fail = -1
    /\ open_set_fails = 0
    /\ rejections = 0
    /\ posts = {}
    /\ client_error_seen = FALSE
    /\ returned = NoReturn

\* settings.py, lines 44-45, with both credentials in the environment
ValidKeys ==
    /\ API_KEY = "set"
    /\ BASE64_PRIVATE_KEY = "valid"

\* a decimal.Decimal: coef * 10^(-exp)
Dec(c, e) == [coef |-> c, exp |-> e]

\* no market buy is being sized
QtyOff ==
    /\ quote_amount = Dec(0, 0)
    /\ current_price = Dec(0, 0)
    /\ asset_quantity = Dec(0, 0)
    /\ buy_pc = "none"

\* None, for a price and for a time
NoPrice == 0
NoTime == -1

\* StateManager.__init__, line 14: {"entry_prices": {}, "dca": {}}, as the
\* getters read it for one symbol
EmptyState ==
    [entry_price |-> NoPrice, last_purchase_at |-> NoTime, purchase_count |-> 0]

\* no strategy has been executed
NoExec ==
    [strategy |-> "none", start |-> 0, end |-> 0, holding |-> 0, entry |-> NoPrice,
     count |-> 0, last |-> NoTime, price |-> NoPrice, h1 |-> FALSE, p2 |-> FALSE,
     h3 |-> FALSE, bp |-> -1, buys |-> 0, buy_ok |-> FALSE, sells |-> 0,
     sell_ok |-> FALSE, calls |-> <<>>]

\* no engine runs
EngineOff ==
    /\ holding = 0
    /\ state = EmptyState
    /\ state_file = EmptyState
    /\ dca_config = [frequency_days |-> 1, max_purchases |-> 0]
    /\ exec = NoExec
    /\ execs = 0
    /\ dca_start = 0

\* no strategies file
Missing == [kind |-> "missing"]

\* no visit of the polling loop yet
NoStep ==
    [key |-> <<>>, tick |-> 0, enabled |-> FALSE, check_interval |-> 0, prev |-> 0,
     before |-> 0, after |-> 0, executed |-> FALSE, outcome |-> "none", rest |-> <<>>,
     raised_before |-> FALSE, first |-> FALSE]

\* no registry operation yet
NoReg == [op |-> "none", key |-> <<>>, result |-> "none", had |-> FALSE]

\* no load of a new store yet
NoLoad == [after |-> "none", file |-> Missing, result |-> <<>>, engine |-> <<>>]

\* no save of the strategies file is under way
StoreOff ==
    /\ save_pc = "idle"
    /\ saved = <<>>
    /\ previous = Missing
    /\ fresh = NoLoad

\* StateManager.__init__, line 14
DefaultState == [entry_prices |-> <<>>, dca |-> <<>>]

\* no state manager over several symbols
ManagerOff ==
    /\ manager = DefaultState
    /\ state_path = Missing
    /\ expected = DefaultState

\* normalize_symbol_to_usd has not been called on its own
SymbolsOff ==
    /\ sym_arg = <<>>
    /\ sym_out = <<>>
    /\ sym_again = <<>>
    /\ sym_pc = "none"

\* no holdings came back
NoHoldings == [kind |-> "none"]

\* the outcome of a call: the exception raised ("none" for a return), the
\* value returned, and the number of order operations of the client called
Outcome(raised, value, orders) == [raised |-> raised, value |-> value, orders |-> orders]

\* no call made yet
NoTrade ==
    [op |-> "none", cli |-> FALSE, symbol |-> <<>>, amount |-> Dec(0, 0),
     buying_power |-> Dec(0, 0), holdings |-> NoHoldings, price_data |-> [kind |-> "none"],
     outcome |-> Outcome("none", "none", 0), exit |-> 0 - 1]

TradeOff == trade = NoTrade

\* no registry and no polling loop
BotOff ==
    /\ StoreOff
    /\ ManagerOff
    /\ SymbolsOff
    /\ TradeOff
    /\ configs = <<>>
    /\ strategies = <<>>
    /\ last_run = <<>>
    /\ running = FALSE
    /\ storage_path = Missing
    /\ loop_pc = "stopped"
    /\ tick = 0
    /\ todo = <<>>
    /\ step = NoStep
    /\ last_exec = <<>>
    /\ reg = NoReg
    /\ bot_ops = 0

\* the client after RobinhoodClient.__init__ has returned
ClientInit ==
    /\ ClientFields
    /\ ValidKeys
    /\ QtyOff
    /\ EngineOff
    /\ BotOff
    /\ pc = "idle"

RLInit ==
    /\ ClientInit
    /\ now = 0
    /\ \E arg \in -1..MaxRate : max_per_minute = RateLimiterInit(arg)
    /\ timestamps = <<>>
    /\ rl_pc = [c \in Callers |-> "idle"]
    /\ rl_now = [c \in Callers |-> 0]
    /\ rl_wake = [c \in Callers |-> 0]
    /\ rl_calls = 0
    /\ recorded = <<>>

\* wait(), lines 17-20: the no-op limiter returns at once, otherwise read the clock
RLEnter(c) ==
    /\ rl_pc[c] = "idle"
    /\ rl_calls < MaxWaits
    /\ rl_calls' = rl_calls + 1
    /\ IF max_per_minute <= 0
       THEN UNCHANGED <<rl_pc, rl_now>>
       ELSE /\ rl_now' = [rl_now EXCEPT ![c] = now]
            /\ rl_pc' = [rl_pc EXCEPT ![c] = "prune"]
    /\ UNCHANGED <<now, max_per_minute, timestamps, rl_wake, recorded, clVars, restVars>>

\* wait(), lines 21-22: one iteration of the pruning loop, or its exit
RLPrune(c) ==
    /\ rl_pc[c] = "prune"
    /\ IF PruneTest(timestamps, rl_now[c])
       THEN timestamps' = Tail(timestamps) /\ UNCHANGED rl_pc
       ELSE rl_pc' = [rl_pc EXCEPT ![c] = "check"] /\ UNCHANGED timestamps
    /\ UNCHANGED <<now, max_per_minute, rl_now, rl_wake, rl_calls, recorded, clVars, restVars>>

\* wait(), lines 23-25: a free slot is taken with the "now" read at line 19
RLCheck(c) ==
    /\ rl_pc[c] = "check"
    /\ IF Len(timestamps) < max_per_minute
       THEN /\ timestamps' = Append(timestamps, rl_now[c])
            /\ recorded' = Append(recorded, rl_now[c])
            /\ rl_pc' = [rl_pc EXCEPT ![c] = "idle"]
       ELSE /\ rl_pc' = [rl_pc EXCEPT ![c] = "compute"]
            /\ UNCHANGED <<timestamps, recorded>>
    /\ UNCHANGED <<now, max_per_minute, rl_now, rl_wake, rl_calls, clVars, restVars>>

\* wait(), lines 26-28: sleep_time from the oldest timestamp; time.sleep starts now.
\* self._timestamps[0] on an empty deque raises IndexError out of wait().
RLCompute(c) ==
    /\ rl_pc[c] = "compute"
    /\ IF timestamps = <<>>
       THEN rl_pc' = [rl_pc EXCEPT ![c] = "raised"] /\ UNCHANGED rl_wake
       ELSE IF SleepTime(timestamps, rl_now[c]) > 0
            THEN /\ rl_wake' = [rl_wake EXCEPT ![c] = now + SleepTime(timestamps, rl_now[c])]
                 /\ rl_pc' = [rl_pc EXCEPT ![c] = "sleep"]
            ELSE /\ rl_pc' = [rl_pc EXCEPT ![c] = "append"]
                 /\ UNCHANGED rl_wake
    /\ UNCHANGED <<now, max_per_minute, timestamps, rl_now, rl_calls, recorded, clVars, restVars>>

\* time.sleep(sleep_time) returns once at least sleep_time has passed
RLWake(c) ==
    /\ rl_pc[c] = "sleep"
    /\ now >= rl_wake[c]
    /\ rl_pc' = [rl_pc EXCEPT ![c] = "append"]
    /\ UNCHANGED <<now, max_per_minute, timestamps, rl_now, rl_wake, rl_calls, recorded, clVars, restVars>>

\* wait(), line 29: self._timestamps.append(time.time())
RLAppend(c) ==
    /\ rl_pc[c] = "append"
    /\ timestamps' = Append(timestamps, now)
    /\ recorded' = Append(recorded, now)
    /\ rl_pc' = [rl_pc EXCEPT ![c] = "idle"]
    /\ UNCHANGED <<now, max_per_minute, rl_now, rl_wake, rl_calls, clVars, restVars>>

\* the clock moves on, while callers are between two statements or asleep
RLTick ==
    /\ \E t \in ClockValues : t > now /\ now' = t
    /\ UNCHANGED <<max_per_minute, timestamps, rl_pc, rl_now, rl_wake, rl_calls, recorded, clVars, restVars>>

RLStep(c) ==
    \/ RLEnter(c)
    \/ RLPrune(c)
    \/ RLCheck(c)
    \/ RLCompute(c)
    \/ RLWake(c)
    \/ RLAppend(c)

(***************************************************************************)
(* RobinhoodClient                                                         *)
(***************************************************************************)
\* HTTP statuses the brokerage answers with in the model
Statuses == {200, 201, 401, 404, 429, 500}

\* JSON bodies: "priced" holds what the operation reads (results[0].price > 0,
\* buying_power), "empty" is {}
Bodies == {"priced", "empty"}

\* what one session.request can end in: a response, or one of the two
\* exceptions _make_request catches
Outcomes ==
    {[kind |-> "response", status |-> s, body |-> b] : s \in {200, 201}, b \in Bodies}
    \cup {[kind |-> "response", status |-> s, body |-> "empty"] : s \in Statuses \ {200, 201}}
    \cup {[kind |-> k, status |-> 0, body |-> "None"] : k \in {"Timeout", "RequestException"}}

\* seconds one request takes
Latencies == {1}

\* seconds the caller lets pass before its next public operation: none, or
\* the length of a cooldown
IdleGaps == {0, CIRCUIT_BREAKER_TIMEOUT}

\* the branches of _handle_error_response
StatusClass(status) ==
    IF status = 404 THEN "not_found"
    ELSE IF status \in {401, 403} THEN "auth"
    ELSE IF status = 429 THEN "rate_limited"
    ELSE IF 500 <= status /\ status < 600 THEN "server_error"
    ELSE "other"

\* what call.last records of an outcome: "ok", "client_error" (a 4xx other
\* than 429) or "transient" (429, 5xx, a timeout, a connection error)
OutcomeClass(o) ==
    IF o.kind /= "response" THEN "transient"
    ELSE IF o.status \in {200, 201} THEN "ok"
    ELSE IF StatusClass(o.status) \in {"not_found", "auth", "other"} THEN "client_error"
    ELSE "transient"

\* 2 ** n
RECURSIVE Pow2(_)
Pow2(n) == IF n <= 0 THEN 1 ELSE 2 * Pow2(n - 1)

\* a variant of Backoff that forgets the cap
BackoffUncapped(n) == RETRY_BACKOFF_BASE * Pow2(n - 1)

\* backoff = min(RETRY_BACKOFF_BASE * (2 ** (attempts - 1)), RETRY_BACKOFF_MAX)
Backoff(n) == Min(RETRY_BACKOFF_BASE * Pow2(n - 1), RETRY_BACKOFF_MAX)

\* the pruning loop of wait(), run to its end
RECURSIVE PruneAll(_, _)
PruneAll(ts, t) == IF PruneTest(ts, t) THEN PruneAll(Tail(ts), t) ELSE ts

\* RateLimiter.wait() run by the client's only thread at clock value t: the
\* deque after it, the clock value at its return, the seconds it slept and
\* whether it appended a timestamp
LimiterWait(ts, t, limit) ==
    IF limit <= 0
    THEN [ts |-> ts, now |-> t, slept |-> 0, slot |-> FALSE]
    ELSE LET p == PruneAll(ts, t) IN
         IF Len(p) < limit
         THEN [ts |-> Append(p, t), now |-> t, slept |-> 0, slot |-> TRUE]
         ELSE LET st == Max(SleepTime(p, t), 0) IN
              [ts |-> Append(p, t + st), now |-> t + st, slept |-> st, slot |-> TRUE]

\* variants of CircuitOpen: no check at all, and a check that also rejects
\* at the very end of the cooldown
CircuitNeverOpen(t, open_until) == FALSE
CircuitOpenInclusive(t, open_until) == t <= open_until

\* _make_request, line 137: the breaker is open
CircuitOpen(t, open_until) == t < open_until

\* a variant of Tripped that trips one failure early
TrippedOneEarly(count) == count >= CIRCUIT_BREAKER_THRESHOLD - 1

\* _record_failure, line 211: the breaker trips
Tripped(count) == count >= CIRCUIT_BREAKER_THRESHOLD

\* a variant of MayAttempt that allows one attempt more
MayAttemptOnceMore(n) == n <= RETRY_MAX + 1

\* the loop condition of _make_request, and the condition of its backoff
MayAttempt(n) == n <= RETRY_MAX

\* a variant of Uuid4 that returns the same value every time
Uuid4Fixed(n) == 1

\* uuid.uuid4(): a value no earlier call has returned
Uuid4(n) == n + 1

\* _prepare_body: the client_order_id in json.dumps(kwargs["json"])
PrepareBody(kw) == kw

ClientSpecInit ==
    /\ ClientInit
    /\ now = 0
    /\ \E arg \in -1..MaxRate : max_per_minute = RateLimiterInit(arg)
    /\ timestamps = <<>>
    /\ rl_pc = [c \in Callers |-> "idle"]
    /\ rl_now = [c \in Callers |-> 0]
    /\ rl_wake = [c \in Callers |-> 0]
    /\ rl_calls = 0
    /\ recorded = <<>>

\* a variant of IsSuccess that takes 201 for an error
IsSuccessOnly200(status) == status = 200

\* response.status_code in [200, 201]
IsSuccess(status) == status \in {200, 201}

\* _make_request, lines 137-140, entered at clock value t with kw as the
\* client_order_id of kwargs["json"]; nextop is the public operation calling it
EnterMakeRequest(t, kw, nextop) ==
    /\ now' = t
    /\ returned' = NoReturn
    /\ kwargs' = kw
    /\ op' = nextop
    /\ LET open == CircuitOpen(t, circuit_open_until) IN
       /\ call' = [NoCall EXCEPT !.start = t,
                                 !.open_at_start = circuit_open_until,
                                 !.ts_at_start = timestamps,
                                 !.tripped = (fails_since_ok >= CIRCUIT_BREAKER_THRESHOLD
                                              /\ t < last_fail + CIRCUIT_BREAKER_TIMEOUT),
                                 !.rejected = open]
       /\ IF open
          THEN /\ result' = "None"
               /\ pc' = "ret"
               /\ rejections' = rejections + 1
               /\ UNCHANGED attempts
          ELSE /\ attempts' = 0
               /\ pc' = "loop"
               /\ UNCHANGED <<result, rejections>>
    /\ UNCHANGED <<max_per_minute, timestamps, rlVars, failure_count, circuit_open_until,
                   fails_since_ok, last_fail, open_set_fails, posts, client_error_seen,
                   restVars>>

\* the public operations that make one _make_request without a client_order_id:
\*   "get"           get_account, get_holdings (no try/except of their own)
\*   "list"          get_orders, get_trading_pairs
\*   "price"         get_crypto_price
\*   "cancel"        cancel_order
\*   "buying_power"  get_buying_power
GetOps == {"get", "list", "price", "cancel", "buying_power"}

\* a variant of ReturnValue that hands the result of _make_request on as it is
ReturnValueRaw(o, r) == r

\* what public operation o makes of the result r of its _make_request
\*   get_crypto_price, lines 255-259; cancel_order, line 429;
\*   get_buying_power, lines 332-337; the others return r
ReturnValue(o, r) ==
    IF o = "price" THEN (IF r = "priced" THEN "priced" ELSE "None")
    ELSE IF o = "cancel" THEN (IF r /= "None" THEN "True" ELSE "False")
    ELSE IF o = "buying_power" THEN (IF r = "priced" THEN "amount" ELSE "0")
    ELSE r

\* what public operation o makes of an exception out of _make_request:
\* get_account and get_holdings let it through, the others catch it
\*   (lines 260-262, 302-304, 322-324, 338-340, 362-364, 415-417, 430-432)
ExceptValue(o) ==
    IF o = "get" THEN "raised"
    ELSE IF o = "cancel" THEN "False"
    ELSE IF o = "buying_power" THEN "0"
    ELSE "None"

StartGet ==
    /\ pc = "idle"
    /\ ops < MaxOps
    /\ ops' = ops + 1
    /\ UNCHANGED uuids
    /\ \E gap \in IdleGaps, o \in GetOps : EnterMakeRequest(now + gap, 0, o)

\* place_market_sell_order, place_limit_order, place_stop_loss_order,
\* place_stop_limit_order: order_data with a new uuid4, then one _make_request
StartOrder ==
    /\ pc = "idle"
    /\ ops < MaxOps
    /\ ops' = ops + 1
    /\ uuids' = uuids + 1
    /\ \E gap \in IdleGaps : EnterMakeRequest(now + gap, Uuid4(uuids), "order")

\* place_market_buy_order, line 273: get_crypto_price first
StartMarketBuy ==
    /\ pc = "idle"
    /\ ops < MaxOps
    /\ ops' = ops + 1
    /\ UNCHANGED uuids
    /\ \E gap \in IdleGaps : EnterMakeRequest(now + gap, 0, "buy_price")

\* place_market_buy_order, lines 274-301: without a price the call returns
\* None, with one it builds order_data with a new uuid4 and posts it
BuyAfterPrice ==
    /\ pc = "ret"
    /\ op = "buy_price"
    /\ IF result = "priced"
       THEN /\ uuids' = uuids + 1
            /\ UNCHANGED ops
            /\ EnterMakeRequest(now, Uuid4(uuids), "buy_order")
       ELSE /\ pc' = "idle"
            /\ op' = "none"
            /\ result' = "None"
            /\ returned' = [op |-> "buy", value |-> "None", failed |-> (call.ok_at = 0),
                            sent |-> call.sent]
            /\ call' = NoCall
            /\ attempts' = 0
            /\ UNCHANGED <<now, max_per_minute, timestamps, rlVars, failure_count,
                           circuit_open_until, kwargs, ops, uuids,
                           fails_since_ok, last_fail, open_set_fails, rejections, posts,
                           client_error_seen, restVars>>

\* the public operation returns what its _make_request returned; the locals
\* of the call are gone
Return ==
    /\ pc = "ret"
    /\ op \in GetOps \cup {"order", "buy_order"}
    /\ pc' = "idle"
    /\ op' = "none"
    /\ result' = "None"
    /\ returned' = [op |-> IF op = "buy_order" THEN "buy" ELSE op,
                    value |-> ReturnValue(op, result),
                    failed |-> (call.ok_at = 0), sent |-> call.sent]
    /\ call' = NoCall
    /\ attempts' = 0
    /\ kwargs' = 0
    /\ UNCHANGED <<now, max_per_minute, timestamps, rlVars, failure_count,
                   circuit_open_until, ops, uuids,
                   fails_since_ok, last_fail, open_set_fails, rejections, posts,
                   client_error_seen, restVars>>

\* an exception leaves _make_request: the public operation catches it, or lets
\* it through to its caller
Propagate ==
    /\ pc = "raise"
    /\ pc' = "idle"
    /\ op' = "none"
    /\ result' = "None"
    /\ returned' = [op |-> IF op \in {"buy_price", "buy_order"} THEN "buy" ELSE op,
                    value |-> ExceptValue(op),
                    failed |-> (call.ok_at = 0), sent |-> call.sent]
    /\ call' = NoCall
    /\ attempts' = 0
    /\ kwargs' = 0
    /\ UNCHANGED <<now, max_per_minute, timestamps, rlVars, failure_count,
                   circuit_open_until, ops, uuids,
                   fails_since_ok, last_fail, open_set_fails, rejections, posts,
                   client_error_seen, restVars>>

\* _sign_request, lines 84-88: without an API key signing raises ValueError
SignRaises(key) == key /= "set"

\* _make_request, lines 141-152: one more attempt: the limiter's wait, then
\* the request is signed and sent; the ValueError of _sign_request is not
\* among the exceptions _make_request catches
Attempt ==
    /\ pc = "loop"
    /\ MayAttempt(attempts)
    /\ attempts' = attempts + 1
    /\ LET w == LimiterWait(timestamps, now, max_per_minute)
           signed == ~SignRaises(API_KEY) IN
       /\ timestamps' = w.ts
       /\ now' = w.now
       /\ call' = [call EXCEPT !.sent = @ + (IF signed THEN 1 ELSE 0),
                               !.slots = @ + (IF w.slot THEN 1 ELSE 0),
                               !.limited = @ + w.slept,
                               !.waited = @ + (IF attempts >= 1 THEN w.slept ELSE 0)]
       /\ posts' = IF kwargs = 0 \/ ~signed
                   THEN posts ELSE posts \cup {<<ops, PrepareBody(kwargs)>>}
       /\ pc' = IF signed THEN "inflight" ELSE "raise"
    /\ UNCHANGED <<max_per_minute, rlVars, failure_count, circuit_open_until, kwargs,
                   result, op, ops, uuids, fails_since_ok, last_fail, open_set_fails,
                   rejections, client_error_seen, returned, restVars>>

\* _make_request, line 141 false and line 173: return None
Exhausted ==
    /\ pc = "loop"
    /\ ~MayAttempt(attempts)
    /\ result' = "None"
    /\ pc' = "ret"
    /\ UNCHANGED <<now, max_per_minute, timestamps, rlVars, failure_count,
                   circuit_open_until, attempts, kwargs, op, ops, uuids, call,
                   fails_since_ok, last_fail, open_set_fails, rejections, posts,
                   client_error_seen, returned, restVars>>

\* the history of the call after outcome o of its attempt n, which took d seconds
Observed(c, o, n, d) ==
    LET ok == o.kind = "response" /\ o.status \in {200, 201} IN
    [c EXCEPT !.last = OutcomeClass(o),
              !.net = @ + d,
              !.ok_at = IF ok /\ @ = 0 THEN n ELSE @,
              !.ok_body = IF ok /\ c.ok_at = 0 THEN o.body ELSE @]

\* _make_request, lines 152-166: the request ends; 200 and 201 return the JSON
\* body, everything else goes through _record_failure (lines 209-212)
Respond ==
    /\ pc = "inflight"
    /\ \E o \in Outcomes, d \in Latencies :
        /\ now' = now + d
        /\ call' = Observed(call, o, attempts, d)
        /\ client_error_seen' = (client_error_seen \/ OutcomeClass(o) = "client_error")
        /\ IF o.kind = "response" /\ o.status \in {200, 201}
           THEN fails_since_ok' = 0 /\ UNCHANGED last_fail
           ELSE fails_since_ok' = fails_since_ok + 1 /\ last_fail' = now + d
        /\ IF o.kind = "response" /\ IsSuccess(o.status)
           THEN /\ failure_count' = 0
                /\ result' = o.body
                /\ pc' = "ret"
                /\ UNCHANGED <<circuit_open_until, open_set_fails>>
           ELSE /\ failure_count' = failure_count + 1
                /\ IF Tripped(failure_count + 1)
                   THEN /\ circuit_open_until' = now + d + CIRCUIT_BREAKER_TIMEOUT
                        /\ open_set_fails' = fails_since_ok'
                   ELSE UNCHANGED <<circuit_open_until, open_set_fails>>
                /\ pc' = "backoff"
                /\ UNCHANGED result
    /\ UNCHANGED <<max_per_minute, timestamps, rlVars, attempts, kwargs, op, ops, uuids,
                   rejections, posts, returned, restVars>>

\* _make_request, lines 167-172: the backoff sleep, unless this was the last attempt
BackoffSleep ==
    /\ pc = "backoff"
    /\ IF MayAttempt(attempts)
       THEN /\ now' = now + Backoff(attempts)
            /\ call' = [call EXCEPT !.slept = Append(@, Backoff(attempts))]
       ELSE UNCHANGED <<now, call>>
    /\ pc' = "loop"
    /\ UNCHANGED <<max_per_minute, timestamps, rlVars, failure_count, circuit_open_until,
                   attempts, kwargs, result, op, ops, uuids, fails_since_ok, last_fail,
                   open_set_fails, rejections, posts, client_error_seen, returned,
                   restVars>>

Next ==
    \/ StartGet
    \/ StartOrder
    \/ StartMarketBuy
    \/ BuyAfterPrice
    \/ Return
    \/ Attempt
    \/ Exhausted
    \/ Respond
    \/ BackoffSleep

Spec == ClientSpecInit /\ [][Next]_vars

(***************************************************************************)
(* The client from its construction on, with any credentials               *)
(***************************************************************************)
\* before RobinhoodClient(): the environment holds, or lacks, each credential
CredInit ==
    /\ ClientFields
    /\ QtyOff
    /\ EngineOff
    /\ BotOff
    /\ pc = "new"
    /\ API_KEY \in {"set", "absent"}
    /\ BASE64_PRIVATE_KEY \in {"valid", "malformed", "absent"}
    /\ now = 0
    /\ \E arg \in -1..MaxRate : max_per_minute = RateLimiterInit(arg)
    /\ timestamps = <<>>
    /\ rl_pc = [c \in Callers |-> "idle"]
    /\ rl_now = [c \in Callers |-> 0]
    /\ rl_wake = [c \in Callers |-> 0]
    /\ rl_calls = 0
    /\ recorded = <<>>

\* RobinhoodClient.__init__, lines 45-57: ValueError when BASE64_PRIVATE_KEY is
\* not set or does not decode to a signing key; API_KEY is not looked at
KeyRejected(api, private) == private /= "valid"

\* RobinhoodClient()
Construct ==
    /\ pc = "new"
    /\ pc' = IF KeyRejected(API_KEY, BASE64_PRIVATE_KEY) THEN "ValueError" ELSE "idle"
    /\ UNCHANGED <<now, max_per_minute, timestamps, rlVars, failure_count,
                   circuit_open_until, attempts, kwargs, result, op, ops, uuids, call,
                   fails_since_ok, last_fail, open_set_fails, rejections, posts,
                   client_error_seen, returned, restVars>>

NextCred ==
    \/ Construct
    \/ Propagate
    \/ Next

SpecCred == CredInit /\ [][NextCred]_vars

(***************************************************************************)
(* Market buy sizing: place_market_buy_order, lines 278-297                *)
(***************************************************************************)
RECURSIVE Pow10(_)
Pow10(n) == IF n <= 0 THEN 1 ELSE 10 * Pow10(n - 1)

\* n / d rounded to an integer, ROUND_HALF_EVEN (the rounding of the default
\* decimal context)
RoundHalfEven(n, d) ==
    LET q == n \div d
        r == n % d
    IN IF 2 * r > d \/ (2 * r = d /\ q % 2 = 1) THEN q + 1 ELSE q

\* the quotient n / d as a Decimal of Prec significant digits: the exponent e
\* is moved until the coefficient has Prec digits, then the coefficient is rounded
RECURSIVE Divide(_, _, _)
Divide(n, d, e) ==
    IF n < d * Pow10(Prec - 1) THEN Divide(10 * n, d, e + 1)
    ELSE IF n >= d * Pow10(Prec) THEN Divide(n, 10 * d, e - 1)
    ELSE Dec(RoundHalfEven(n, d), e)

\* line 285: quote_amount_decimal / current_price
TrueDiv(a, b) == Divide(a.coef * Pow10(b.exp), b.coef * Pow10(a.exp), 0)

\* line 289: quantize(Decimal('0.00000001'), rounding='ROUND_DOWN')
QuantizeDown(x) ==
    IF x.exp >= Places
    THEN Dec(x.coef \div Pow10(x.exp - Places), Places)
    ELSE Dec(x.coef * Pow10(Places - x.exp), Places)

\* quantize raises InvalidOperation when the result needs more than Prec digits
QuantizeRaises(x) == QuantizeDown(x).coef >= Pow10(Prec)

\* a client at rest, its limiter switched off
ClientIdle ==
    /\ ClientFields
    /\ ValidKeys
    /\ pc = "idle"
    /\ max_per_minute = RateLimiterInit(0)
    /\ timestamps = <<>>
    /\ rl_pc = [c \in Callers |-> "idle"]
    /\ rl_now = [c \in Callers |-> 0]
    /\ rl_wake = [c \in Callers |-> 0]
    /\ rl_calls = 0
    /\ recorded = <<>>

\* quote amounts: whole dollars
Amounts == {Dec(n, 0) : n \in 1..MaxAmount}

\* price strings of the brokerage: short ones, and ones with more digits
\* than the decimal context keeps, just below and just above a power of ten
PriceCoefs == (0..MaxCoef) \cup {Pow10(Prec + 1) - 1, Pow10(Prec + 1) + 1}
Prices == {Dec(c, e) : c \in PriceCoefs, e \in 0..(Prec + 1)}

\* place_market_buy_order at line 278: price_data holds a price
QtyInit ==
    /\ ClientIdle
    /\ EngineOff
    /\ BotOff
    /\ now = 0
    /\ quote_amount \in Amounts
    /\ current_price \in Prices
    /\ asset_quantity = Dec(0, 0)
    /\ buy_pc = "priced"

\* lines 278-297: None for a price <= 0; otherwise divide, quantize (an
\* InvalidOperation is caught at line 302) and build order_data
SizeOrder ==
    /\ buy_pc = "priced"
    /\ IF current_price.coef <= 0
       THEN buy_pc' = "invalid" /\ UNCHANGED asset_quantity
       ELSE LET q == TrueDiv(quote_amount, current_price) IN
            IF QuantizeRaises(q)
            THEN buy_pc' = "raised" /\ UNCHANGED asset_quantity
            ELSE buy_pc' = "posting" /\ asset_quantity' = QuantizeDown(q)
    /\ UNCHANGED <<now, max_per_minute, timestamps, rlVars, clVars, keyVars, engVars, botVars, storeVars, smVars, symVars, tradeVars,
                   quote_amount, current_price>>

NextQty == SizeOrder

SpecQty == QtyInit /\ [][NextQty]_vars

\* C13: the asset quantity q of a market buy of quote amount a at price p > 0
\* is a / p truncated to the quantum: q has at most Places fractional digits,
\* q * p <= a, and (q + one quantum) * p > a.
C13_QuantityTruncated ==
    buy_pc = "posting" =>
        /\ asset_quantity.exp = Places
        /\ asset_quantity.coef * current_price.coef * Pow10(quote_amount.exp)
              <= quote_amount.coef * Pow10(Places + current_price.exp)
        /\ (asset_quantity.coef + 1) * current_price.coef * Pow10(quote_amount.exp)
              > quote_amount.coef * Pow10(Places + current_price.exp)

(***************************************************************************)
(* AutomatedTradingBot: one stop-loss and one DCA strategy on one symbol.  *)
(* The client is seen through its public operations: each returns its      *)
(* value or its no-result value.  A market order that returns a result is  *)
(* filled at once.  Prices are exact numbers, not floats.                  *)
(***************************************************************************)
\* what get_crypto_price answers: None, or a price in tenths of a dollar
PriceOutcomes == {NoPrice, 949, 950, 951, 1100}

\* what get_buying_power answers: 0.00 (also on failure), or an amount
BuyingPowers == {0, 50, 100}

\* clock units that a buying-power lookup and a market buy take together
Durations == {0, 1}

\* _get_position_value, lines 139-165: 0.0 when the holdings lookup fails,
\* the symbol is not held or the price lookup fails; else quantity * price
PositionValue(holdings_ok, quantity, price) ==
    IF ~holdings_ok \/ quantity = 0 \/ price = NoPrice THEN 0 ELSE quantity * price

\* a variant of StopHit with a strict comparison
StopHitStrict(price, entry) == 100 * price < entry * (100 - stop_loss_percentage)

\* lines 196 and 200: current_price <= entry_price * (1 - stop_loss_percentage / 100)
StopHit(price, entry) == 100 * price <= entry * (100 - stop_loss_percentage)

\* lines 197 and 203: current_price >= entry_price * (1 + profit_target_percentage / 100)
TargetHit(price, entry) == 100 * price >= entry * (100 + profit_target_percentage)

\* variants of CapReached: one that takes 0 for a cap, one that stops a purchase late
CapReachedZero(max_purchases, count) == count >= max_purchases
CapReachedLate(max_purchases, count) == max_purchases /= 0 /\ count > max_purchases

\* line 234: config.max_purchases and purchase_count >= config.max_purchases
CapReached(max_purchases, count) == max_purchases /= 0 /\ count >= max_purchases

\* a variant of TooEarly that lets a purchase through one clock unit early
TooEarlyShort(t, last, frequency_days) ==
    last /= NoTime /\ t + 1 < last + frequency_days * DayLength

\* lines 238-244: last_purchase_at is set and utcnow() < last_dt + timedelta(days)
TooEarly(t, last, frequency_days) ==
    last /= NoTime /\ t < last + frequency_days * DayLength

\* a variant of Affordable with a strict comparison
AffordableStrict(buying_power, amount) == buying_power > amount

\* lines 179 and 247: buying_power >= the amount to spend
Affordable(buying_power, amount) == buying_power >= amount

\* StateManager.set_entry_price / clear_entry_price / update_dca_state: the
\* record in memory after the call
SetEntryPrice(st, price) == [st EXCEPT !.entry_price = price]
\* a variant of ClearEntryPrice that clears nothing
ClearEntryPriceNot(st) == st
ClearEntryPrice(st) == [st EXCEPT !.entry_price = NoPrice]
UpdateDcaState(st, t, count) ==
    [st EXCEPT !.last_purchase_at = t, !.purchase_count = count]

\* the engine is constructed over the files of an earlier run: an account
\* holding one of the quantities H, a state file with one of the entry prices
\* E (recorded only for a position) and one of the purchase counts C, and
\* one of the DCA configs K
EngineInit(H, E, C, K) ==
    /\ ClientIdle
    /\ QtyOff
    /\ BotOff
    /\ now = 0
    /\ holding \in H
    /\ \E e \in E, c \in C :
          /\ (e /= NoPrice => holding > 0)
          /\ state_file = [entry_price |-> e,
                           last_purchase_at |-> IF c = 0 THEN NoTime ELSE 0,
                           purchase_count |-> c]
          /\ dca_start = c
    /\ state = state_file
    /\ dca_config \in K
    /\ exec = NoExec
    /\ execs = 0

\* what the history of an execution starts from: the clock and the DCA
\* record for a DCA execution, the position and the entry price for a
\* stop-loss execution
ExecStart(name) ==
    IF name = "dca"
    THEN [NoExec EXCEPT !.strategy = name, !.start = now, !.end = now,
                        !.count = state.purchase_count,
                        !.last = state.last_purchase_at]
    ELSE [NoExec EXCEPT !.strategy = name, !.holding = holding,
                        !.entry = state.entry_price]

\* _execute_dca_strategy, lines 228-261
ExecuteDCA ==
    /\ execs < MaxExecs
    /\ execs' = execs + 1
    /\ LET last == state.last_purchase_at
           count == state.purchase_count
           base == ExecStart("dca")
       IN IF CapReached(dca_config.max_purchases, count)
             \/ TooEarly(now, last, dca_config.frequency_days)
          THEN /\ exec' = base
               /\ UNCHANGED <<now, holding, state, state_file>>
          ELSE \E bp \in BuyingPowers, d \in Durations :
                 /\ now + d <= MaxTime
                 /\ now' = now + d
                 /\ IF Affordable(bp, amount_per_purchase)
                    THEN \E ok \in BOOLEAN :
                         /\ exec' = [base EXCEPT !.end = now + d, !.bp = bp,
                                                 !.buys = 1, !.buy_ok = ok]
                         /\ IF ok
                            THEN /\ state' = UpdateDcaState(state, now + d, count + 1)
                                 /\ state_file' = state'
                                 /\ holding' = holding + 1
                            ELSE UNCHANGED <<holding, state, state_file>>
                    ELSE /\ exec' = [base EXCEPT !.end = now + d, !.bp = bp]
                         /\ UNCHANGED <<holding, state, state_file>>
    /\ UNCHANGED <<max_per_minute, timestamps, rlVars, clVars, keyVars, qtyVars, botVars, storeVars, smVars, symVars, tradeVars,
                   dca_config, dca_start>>

\* _execute_stop_loss_strategy, lines 167-208, with _sell_position, lines 263-289
ExecuteStopLoss ==
    /\ execs < MaxExecs
    /\ execs' = execs + 1
    /\ \E p1 \in PriceOutcomes :
         LET base == [ExecStart("stop_loss") EXCEPT !.price = p1] IN
         IF p1 = NoPrice
         THEN /\ exec' = base
              /\ UNCHANGED <<holding, state, state_file>>
         ELSE \E h1 \in BOOLEAN, p2 \in BOOLEAN :
              LET looked == [base EXCEPT !.h1 = h1, !.p2 = p2] IN
              IF PositionValue(h1, holding, IF p2 THEN p1 ELSE NoPrice) = 0
              THEN \E bp \in BuyingPowers :
                     IF Affordable(bp, position_size_usd)
                     THEN \E ok \in BOOLEAN :
                          /\ exec' = [looked EXCEPT !.bp = bp, !.buys = 1, !.buy_ok = ok]
                          /\ IF ok
                             THEN /\ state' = SetEntryPrice(state, p1)
                                  /\ state_file' = state'
                                  /\ holding' = holding + 1
                             ELSE UNCHANGED <<holding, state, state_file>>
                     ELSE /\ exec' = [looked EXCEPT !.bp = bp]
                          /\ UNCHANGED <<holding, state, state_file>>
              ELSE \E h3 \in BOOLEAN, ok \in BOOLEAN :
                     LET lazy == state.entry_price = NoPrice
                         entry == IF lazy THEN p1 ELSE state.entry_price
                         st1 == IF lazy THEN SetEntryPrice(state, entry) ELSE state
                         hit == StopHit(p1, entry) \/ TargetHit(p1, entry)
                         sells == hit /\ h3 /\ holding > 0
                     IN /\ exec' = [looked EXCEPT !.h3 = h3,
                                                  !.sells = IF sells THEN 1 ELSE 0,
                                                  !.sell_ok = sells /\ ok]
                        /\ state' = IF sells /\ ok THEN ClearEntryPrice(st1) ELSE st1
                        /\ state_file' = IF lazy \/ (sells /\ ok) THEN state' ELSE state_file
                        /\ holding' = IF sells /\ ok THEN 0 ELSE holding
    /\ UNCHANGED <<now, max_per_minute, timestamps, rlVars, clVars, keyVars, qtyVars, botVars, storeVars, smVars, symVars, tradeVars,
                   dca_config, dca_start>>

\* the engine process ends and a new one is started: StateManager._load,
\* lines 17-24, reads the state file
Restart ==
    /\ state' = state_file
    /\ exec' = NoExec
    /\ UNCHANGED <<now, max_per_minute, timestamps, rlVars, clVars, keyVars, qtyVars, botVars, storeVars, smVars, symVars, tradeVars,
                   holding, state_file, dca_config, execs, dca_start>>

\* time passes between two executions: an hour or so, or a day
EngineTick ==
    /\ \E k \in {1, DayLength} :
         /\ now + k <= MaxTime
         /\ now' = now + k
    /\ exec' = NoExec
    /\ UNCHANGED <<max_per_minute, timestamps, rlVars, clVars, keyVars, qtyVars, botVars, storeVars, smVars, symVars, tradeVars,
                   holding, state, state_file, dca_config, execs, dca_start>>

\* the engine with a DCA strategy: any cap, frequency and earlier purchases
DCAInit ==
    EngineInit({0}, {NoPrice}, 0..(MaxPurchases + 1),
               [frequency_days : 1..MaxFrequency, max_purchases : 0..MaxPurchases])

NextDCA ==
    \/ ExecuteDCA
    \/ Restart
    \/ EngineTick

SpecDCA == DCAInit /\ [][NextDCA]_vars

\* the engine with a stop-loss strategy: with or without a position, with or
\* without a recorded entry price of 100.0
StopLossInit ==
    EngineInit({0, 1}, {NoPrice, 1000}, {0}, {[frequency_days |-> 1, max_purchases |-> 0]})

NextStopLoss ==
    \/ ExecuteStopLoss
    \/ Restart

SpecStopLoss == StopLossInit /\ [][NextStopLoss]_vars

(***************************************************************************)
(* Symbols (utils/symbols.py).  A str is a sequence of characters.         *)
(***************************************************************************)
\* characters str.strip() removes
Whitespace == {" ", "\t"}

\* str.upper() of one character; "sharp_s" stands for U+00DF, whose upper
\* case is the two characters SS
UpperOf(c) ==
    CASE c = "b" -> <<"B">>
      [] c = "e" -> <<"E">>
      [] c = "u" -> <<"U">>
      [] c = "s" -> <<"S">>
      [] c = "d" -> <<"D">>
      [] c = "sharp_s" -> <<"S", "S">>
      [] OTHER -> <<c>>

RECURSIVE Upper(_)
Upper(s) == IF s = <<>> THEN <<>> ELSE UpperOf(Head(s)) \o Upper(Tail(s))

RECURSIVE LStrip(_)
LStrip(s) == IF s /= <<>> /\ Head(s) \in Whitespace THEN LStrip(Tail(s)) ELSE s

RECURSIVE RStrip(_)
RStrip(s) ==
    IF s /= <<>> /\ s[Len(s)] \in Whitespace THEN RStrip(SubSeq(s, 1, Len(s) - 1)) ELSE s

Strip(s) == RStrip(LStrip(s))

\* a variant of EndsWith that never finds the suffix
EndsWithNever(s, suffix) == FALSE

\* str.endswith
EndsWith(s, suffix) ==
    Len(s) >= Len(suffix) /\ SubSeq(s, Len(s) - Len(suffix) + 1, Len(s)) = suffix

USD == <<"-", "U", "S", "D">>

\* the characters of the class [A-Z0-9]
UpperOrDigit ==
    {"A", "B", "C", "D", "E", "F", "G", "H", "I", "J", "K", "L", "M", "N", "O", "P", "Q",
     "R", "S", "T", "U", "V", "W", "X", "Y", "Z",
     "0", "1", "2", "3", "4", "5", "6", "7", "8", "9"}

\* normalize_symbol_to_usd, lines 8-13
normalize_symbol_to_usd(symbol) ==
    LET normalized == Upper(Strip(symbol))
    IN IF ~EndsWith(normalized, USD) THEN normalized \o USD ELSE normalized

(***************************************************************************)
(* Python dicts: sequences of <<key, value>> in insertion order            *)
(***************************************************************************)
DictKeys(d) == {d[i][1] : i \in DOMAIN d}
DictGet(d, k) == d[CHOOSE i \in DOMAIN d : d[i][1] = k][2]
\* d[k] = v: a key the dict has keeps its place
DictSet(d, k, v) ==
    IF k \in DictKeys(d)
    THEN [i \in DOMAIN d |-> IF d[i][1] = k THEN <<k, v>> ELSE d[i]]
    ELSE Append(d, <<k, v>>)
\* d.pop(k, None)
DictPop(d, k) == SelectSeq(d, LAMBDA e : e[1] /= k)
\* d.get(k, default) of a dict whose order is never read
Get(f, k, default) == IF k \in DOMAIN f THEN f[k] ELSE default

(***************************************************************************)
(* Strategy configs and their storage (storage/strategy_storage.py)        *)
(***************************************************************************)
StrategyTypes == {"stop_loss", "trailing_stop", "dca"}

\* the dataclass of each strategy type, and the fields of its constructor
\* (of the fields of each class the model keeps symbol, enabled,
\* check_interval and the first field of the subclass)
ClassOf(type) ==
    CASE type = "stop_loss" -> "StopLossConfig"
      [] type = "trailing_stop" -> "TrailingStopConfig"
      [] type = "dca" -> "DCAConfig"

OwnField(class) ==
    CASE class = "StopLossConfig" -> "stop_loss_percentage"
      [] class = "TrailingStopConfig" -> "trailing_percentage"
      [] class = "DCAConfig" -> "amount_per_purchase"

FieldsOf(class) == {"symbol", "enabled", "check_interval", OwnField(class)}

\* the defaults of the dataclasses, lines 31-32, 38, 45 and 52
DefaultOf(field) ==
    CASE field = "enabled" -> TRUE
      [] field = "check_interval" -> 60
      [] field = "stop_loss_percentage" -> stop_loss_percentage
      [] field = "trailing_percentage" -> 3
      [] field = "amount_per_purchase" -> amount_per_purchase

\* the bound method each add_*_strategy registers, lines 79, 86 and 93
FuncOf(type) ==
    CASE type = "stop_loss" -> "_execute_stop_loss_strategy"
      [] type = "trailing_stop" -> "_execute_trailing_stop_strategy"
      [] type = "dca" -> "_execute_dca_strategy"

\* f"{strategy_type}_{config.symbol}": the type is one token of the key
Key(type, symbol) == <<type, "_">> \o symbol

\* key.startswith(prefix), for a prefix that is the name of a strategy type
StartsWith(key, prefix) == key /= <<>> /\ key[1] = prefix

\* a config object of the class, built from keyword arguments
Config(class, kw) ==
    [f \in {"class"} \cup FieldsOf(class) |->
        IF f = "class" THEN class
        ELSE IF f \in DOMAIN kw THEN kw[f] ELSE DefaultOf(f)]

\* a variant of asdict that leaves the field "enabled" out
asdictWithoutEnabled(config) == [f \in DOMAIN config \ {"class", "enabled"} |-> config[f]]

\* dataclasses.asdict(config)
asdict(config) == [f \in DOMAIN config \ {"class"} |-> config[f]]

\* JSON values: an object with its members, an array with its items, null
Obj(members) == [type |-> "object", members |-> members]
Arr(items) == [type |-> "array", items |-> items]
Null == [type |-> "null"]

\* StrategyStorage.save, lines 44-54: the strategy_type of an entry comes
\* from the prefix of its key; other keys are left out
SaveType(key) ==
    IF StartsWith(key, "stop_loss") THEN "stop_loss"
    ELSE IF StartsWith(key, "dca") THEN "dca"
    ELSE IF StartsWith(key, "trailing_stop") THEN "trailing_stop"
    ELSE "none"

RECURSIVE Payload(_)
Payload(cfgs) ==
    IF cfgs = <<>> THEN <<>>
    ELSE LET key == Head(cfgs)[1]
             config_dict == asdict(Head(cfgs)[2])
         IN IF SaveType(key) = "none" THEN Payload(Tail(cfgs))
            ELSE <<Obj([f \in DOMAIN config_dict \cup {"strategy_type"} |->
                          IF f = "strategy_type" THEN SaveType(key) ELSE config_dict[f]])>>
                 \o Payload(Tail(cfgs))

\* StrategyStorage.save, lines 55-57, once the file is written and closed:
\* the JSON document {"strategies": payload}
save(cfgs) == [kind |-> "json", data |-> Obj([strategies |-> Arr(Payload(cfgs))])]

\* what a call ends in: a value, or an exception that leaves it
Returns(v) == [raised |-> "none", value |-> v]
Raises(e) == [raised |-> e, value |-> <<>>]

\* a variant of LoadItems that fails on an entry of no known strategy type
RECURSIVE LoadItemsFatal(_, _)
LoadItemsFatal(items, acc) ==
    IF items = <<>> THEN Returns(acc)
    ELSE LET item == Head(items) IN
         IF item.type /= "object" THEN Raises("AttributeError")
         ELSE LET strategy_type == Get(item.members, "strategy_type", "")
                  rest == [f \in DOMAIN item.members \ {"strategy_type"} |-> item.members[f]]
              IN IF strategy_type \notin StrategyTypes THEN Raises("ValueError")
                 ELSE IF ~(DOMAIN rest \subseteq FieldsOf(ClassOf(strategy_type)))
                         \/ "symbol" \notin DOMAIN rest
                 THEN Raises("TypeError")
                 ELSE LET config == Config(ClassOf(strategy_type), rest)
                      IN LoadItemsFatal(Tail(items),
                                   DictSet(acc, Key(strategy_type, config.symbol), config))

\* StrategyStorage.load, lines 27-39: the loop over the entries
RECURSIVE LoadItems(_, _)
LoadItems(items, acc) ==
    IF items = <<>> THEN Returns(acc)
    ELSE LET item == Head(items) IN
         IF item.type /= "object" THEN Raises("AttributeError")
         ELSE LET strategy_type == Get(item.members, "strategy_type", "")
                  rest == [f \in DOMAIN item.members \ {"strategy_type"} |-> item.members[f]]
              IN IF strategy_type \notin StrategyTypes THEN LoadItems(Tail(items), acc)
                 ELSE IF ~(DOMAIN rest \subseteq FieldsOf(ClassOf(strategy_type)))
                         \/ "symbol" \notin DOMAIN rest
                 THEN Raises("TypeError")
                 ELSE LET config == Config(ClassOf(strategy_type), rest)
                      IN LoadItems(Tail(items),
                                   DictSet(acc, Key(strategy_type, config.symbol), config))

\* StrategyStorage.load, lines 18-40.  The file is missing, cannot be opened
\* (OSError), is not UTF-8 (UnicodeDecodeError, which line 24 does not
\* catch), is no JSON text (JSONDecodeError), or holds a JSON value
load(file) ==
    IF file.kind = "missing" THEN Returns(<<>>)
    ELSE IF file.kind \in {"unreadable", "text"} THEN Returns(<<>>)
    ELSE IF file.kind = "not_utf8" THEN Raises("UnicodeDecodeError")
    ELSE LET data == file.data IN
         IF data.type /= "object" THEN Raises("AttributeError")
         ELSE LET list == Get(data.members, "strategies", Arr(<<>>)) IN
              IF list.type = "null" THEN Raises("TypeError")
              ELSE IF list.type = "object"
              THEN (IF DOMAIN list.members = {} THEN Returns(<<>>)
                    ELSE Raises("AttributeError"))
              ELSE LoadItems(list.items, <<>>)

(***************************************************************************)
(* AutomatedTradingBot: the registry of strategies, lines 75-126           *)
(***************************************************************************)
\* a variant of AddStrategy that files the config under the symbol as given
AddStrategyRaw(cfgs, strats, type, config) ==
    LET key == Key(type, config.symbol)
    IN [configs |-> DictSet(cfgs, key, config),
        strategies |-> DictSet(strats, key, FuncOf(type))]

\* add_stop_loss_strategy, add_trailing_stop_strategy, add_dca_strategy,
\* lines 75-94, before the save: the configs and strategies they leave
AddStrategy(cfgs, strats, type, config) ==
    LET c == [config EXCEPT !.symbol = normalize_symbol_to_usd(config.symbol)]
        key == Key(type, c.symbol)
    IN [configs |-> DictSet(cfgs, key, c), strategies |-> DictSet(strats, key, FuncOf(type))]

\* load_strategies, lines 101-111: the type a loaded key is filed under
LoadType(key) ==
    IF StartsWith(key, "stop_loss") THEN "stop_loss"
    ELSE IF StartsWith(key, "trailing_stop") THEN "trailing_stop"
    ELSE IF StartsWith(key, "dca") THEN "dca"
    ELSE "none"

\* load_strategies, lines 99-112: the loop over the loaded items
RECURSIVE LoadInto(_, _, _)
LoadInto(loaded, cfgs, strats) ==
    IF loaded = <<>> THEN [configs |-> cfgs, strategies |-> strats]
    ELSE LET key == Head(loaded)[1]
             c == [Head(loaded)[2] EXCEPT !.symbol = normalize_symbol_to_usd(@)]
             new_key == Key(LoadType(key), c.symbol)
         IN IF LoadType(key) = "none" THEN LoadInto(Tail(loaded), cfgs, strats)
            ELSE LoadInto(Tail(loaded), DictSet(cfgs, new_key, c),
                          DictSet(strats, new_key, FuncOf(LoadType(key))))

\* the variables the engine's registry and loop never write, the clock aside
offVars == <<max_per_minute, timestamps, rlVars, clVars, keyVars, qtyVars, engVars,
             storeVars, smVars, symVars, tradeVars>>

\* AutomatedTradingBot.__init__, lines 63-69, over the strategies file F
BotInit(F) ==
    /\ ClientIdle
    /\ QtyOff
    /\ EngineOff
    /\ StoreOff
    /\ ManagerOff
    /\ SymbolsOff
    /\ TradeOff
    /\ configs = <<>>
    /\ strategies = <<>>
    /\ last_run = <<>>
    /\ running = FALSE
    /\ storage_path \in F
    /\ loop_pc = "stopped"
    /\ tick = 0
    /\ todo = <<>>
    /\ step = NoStep
    /\ last_exec = <<>>
    /\ reg = NoReg
    /\ bot_ops = 0

\* one of add_stop_loss_strategy, add_trailing_stop_strategy and
\* add_dca_strategy, lines 75-94, called with a config of its class out of C
Add(C) ==
    /\ loop_pc = "stopped"
    /\ bot_ops < MaxBotOps
    /\ bot_ops' = bot_ops + 1
    /\ \E type \in StrategyTypes, config \in C :
         /\ config.class = ClassOf(type)
         /\ LET r == AddStrategy(configs, strategies, type, config) IN
            /\ configs' = r.configs
            /\ strategies' = r.strategies
            /\ storage_path' = save(r.configs)
            /\ reg' = [op |-> "add",
                       key |-> Key(type, normalize_symbol_to_usd(config.symbol)),
                       result |-> config,
                       had |-> Key(type, normalize_symbol_to_usd(config.symbol))
                                  \in DictKeys(configs)]
    /\ step' = NoStep
    /\ UNCHANGED <<now, offVars, last_run, running, loop_pc, tick, todo, last_exec>>

\* load_strategies, lines 96-112; an exception of StrategyStorage.load goes
\* on to the caller
LoadStrategies ==
    /\ loop_pc = "stopped"
    /\ bot_ops < MaxBotOps
    /\ bot_ops' = bot_ops + 1
    /\ LET loaded == load(storage_path) IN
       IF loaded.raised /= "none"
       THEN /\ reg' = [NoReg EXCEPT !.op = "load", !.result = loaded.raised]
            /\ UNCHANGED <<configs, strategies>>
       ELSE LET r == LoadInto(loaded.value, configs, strategies) IN
            /\ configs' = r.configs
            /\ strategies' = r.strategies
            /\ reg' = [NoReg EXCEPT !.op = "load", !.result = "None"]
    /\ step' = NoStep
    /\ UNCHANGED <<now, offVars, last_run, running, storage_path, loop_pc, tick, todo,
                   last_exec>>

\* remove_strategy(strategy_key), lines 118-126, for a key out of K
Remove(K) ==
    /\ loop_pc = "stopped"
    /\ bot_ops < MaxBotOps
    /\ bot_ops' = bot_ops + 1
    /\ \E strategy_key \in K :
         IF strategy_key \in DictKeys(configs)
         THEN /\ configs' = DictPop(configs, strategy_key)
              /\ strategies' = DictPop(strategies, strategy_key)
              /\ storage_path' = save(configs')
              /\ reg' = [op |-> "remove", key |-> strategy_key, result |-> TRUE, had |-> TRUE]
         ELSE /\ reg' = [op |-> "remove", key |-> strategy_key, result |-> FALSE, had |-> FALSE]
              /\ UNCHANGED <<configs, strategies, storage_path>>
    /\ step' = NoStep
    /\ UNCHANGED <<now, offVars, last_run, running, loop_pc, tick, todo, last_exec>>

\* the process ends and a later command constructs a new engine over the
\* same files, lines 63-69
NewBot ==
    /\ loop_pc = "stopped"
    /\ bot_ops < MaxBotOps
    /\ bot_ops' = bot_ops + 1
    /\ configs' = <<>>
    /\ strategies' = <<>>
    /\ last_run' = <<>>
    /\ last_exec' = <<>>
    /\ reg' = NoReg
    /\ step' = NoStep
    /\ UNCHANGED <<now, offVars, running, storage_path, loop_pc, tick, todo>>

(***************************************************************************)
(* AutomatedTradingBot.start: the polling loop, lines 291-323              *)
(***************************************************************************)
\* a variant of Caught that catches nothing
CaughtNothing(e) == FALSE

\* a variant of Caught that catches every exception, as a bare except would
CaughtAll(e) == e /= "none"

\* "except Exception": what the clause catches
Caught(e) == e = "Exception"

\* what leaves a try block whose only handler is "except Exception"
Leaves(e) == IF e /= "none" /\ ~Caught(e) THEN e ELSE "none"

\* a variant of Due with a strict comparison
DueStrict(t, last, check_interval) == t - last > check_interval

\* line 308: now - last_run >= config.check_interval
Due(t, last, check_interval) == t - last >= check_interval

\* what the body of a strategy function can end in, and the seconds it takes
ExecOutcomes == {"none", "Exception", "KeyboardInterrupt"}
ExecSeconds == {0, PollSeconds \div 2}

\* start(), lines 293-298: authenticate, then enter the loop
Start ==
    /\ loop_pc = "stopped"
    /\ \E authenticated \in BOOLEAN :
         /\ IF authenticated
            THEN running' = TRUE /\ loop_pc' = "top"
            ELSE UNCHANGED <<running, loop_pc>>
         /\ step' = [NoStep EXCEPT !.first = authenticated]
    /\ UNCHANGED <<now, offVars, configs, strategies, last_run, storage_path, tick, todo,
                   last_exec, reg, bot_ops>>

\* lines 301-303: the loop condition, the tick time, the start of the for loop
TickStart ==
    /\ loop_pc = "top"
    /\ bot_ops < MaxBotOps
    /\ bot_ops' = bot_ops + 1
    /\ IF running
       THEN tick' = now /\ todo' = strategies /\ loop_pc' = "iter"
       ELSE loop_pc' = "stopped" /\ UNCHANGED <<tick, todo>>
    /\ step' = [NoStep EXCEPT !.first = step.first]
    /\ UNCHANGED <<now, offVars, configs, strategies, last_run, running, storage_path,
                   last_exec, reg>>

\* line 313: self.last_run[strategy_name] = now, the tick time
LastRun(t, clock) == t

\* lines 303-313: the for loop visits one item.  An exception inside the
\* strategy passes the handler of the strategy function (lines 207, 225,
\* 260) and the one of line 311; what leaves both ends the loop in stop()
\* (lines 318-323)
StrategyStep ==
    /\ loop_pc = "iter"
    /\ todo /= <<>>
    /\ LET strategy_name == Head(todo)[1]
           known == strategy_name \in DictKeys(configs)
           config == DictGet(configs, strategy_name)
           before == Get(last_run, strategy_name, 0)
           visit == [NoStep EXCEPT !.key = strategy_name, !.tick = tick,
                                   !.prev = Get(last_exec, strategy_name, 0),
                                   !.before = before, !.after = before,
                                   !.rest = Tail(todo),
                                   !.raised_before = (step.raised_before
                                                      \/ step.outcome = "Exception"),
                                   !.first = step.first]
       IN IF ~known
          THEN /\ step' = visit
               /\ todo' = Tail(todo)
               /\ UNCHANGED <<now, last_run, running, loop_pc, last_exec>>
          ELSE LET seen == [visit EXCEPT !.enabled = config.enabled,
                                         !.check_interval = config.check_interval]
               IN IF ~(config.enabled /\ Due(tick, before, config.check_interval))
                  THEN /\ step' = seen
                       /\ todo' = Tail(todo)
                       /\ UNCHANGED <<now, last_run, running, loop_pc, last_exec>>
                  ELSE \E e \in ExecOutcomes, d \in ExecSeconds :
                       /\ now' = now + d
                       /\ last_exec' = IF e = "KeyboardInterrupt" THEN last_exec
                                       ELSE (strategy_name :> tick) @@ last_exec
                       /\ IF Leaves(Leaves(e)) = "none"
                          THEN /\ last_run' = (strategy_name :> LastRun(tick, now + d))
                                                 @@ last_run
                               /\ todo' = Tail(todo)
                               /\ UNCHANGED <<running, loop_pc>>
                          ELSE /\ running' = FALSE
                               /\ loop_pc' = "stopped"
                               /\ todo' = <<>>
                               /\ UNCHANGED last_run
                       /\ step' = [seen EXCEPT !.executed = TRUE, !.outcome = e,
                                               !.after = Get(last_run', strategy_name, 0)]
    /\ UNCHANGED <<offVars, configs, strategies, storage_path, tick, reg, bot_ops>>

\* line 316: time.sleep(60) after the for loop; a KeyboardInterrupt during
\* the sleep ends the loop in stop() (lines 318-320)
Sleep ==
    /\ loop_pc = "iter"
    /\ todo = <<>>
    /\ \E interrupted \in BOOLEAN :
         IF interrupted
         THEN /\ now' = now + PollSeconds \div 2
              /\ running' = FALSE
              /\ loop_pc' = "stopped"
         ELSE /\ now' = now + PollSeconds
              /\ loop_pc' = "top"
              /\ UNCHANGED running
    /\ step' = NoStep
    /\ UNCHANGED <<offVars, configs, strategies, last_run, storage_path, tick, todo,
                   last_exec, reg, bot_ops>>

\* the configs the loop is checked with: one symbol, any type
CheckIntervals == {PollSeconds, PollSeconds + PollSeconds \div 2}
LoopConfigs ==
    {Config(ClassOf(type), [symbol |-> <<"b">>, enabled |-> en, check_interval |-> ci]) :
        type \in {"stop_loss", "dca"}, en \in BOOLEAN, ci \in CheckIntervals}
LoopKeys == {Key(type, <<"B">> \o USD) : type \in {"stop_loss", "dca"}}

\* an engine built over no strategies file, long after the epoch
LoopInit ==
    /\ BotInit({Missing})
    /\ now = 10 * PollSeconds

NextLoop ==
    \/ Add(LoopConfigs)
    \/ Remove(LoopKeys)
    \/ Start
    \/ TickStart
    \/ StrategyStep
    \/ Sleep

SpecLoop == LoopInit /\ [][NextLoop]_vars

\* the strategies files auto-trade starts from: one or two of the configs
\* above, as the strategy commands saved them
LiveItems(type) ==
    {<<Key(type, <<"B">> \o USD), [c EXCEPT !.symbol = <<"B">> \o USD]>> :
        c \in {x \in LoopConfigs : x.class = ClassOf(type)}}
LiveFiles ==
    {save(<<c>>) : c \in LiveItems("stop_loss") \cup LiveItems("dca")}
    \cup {save(<<c, d>>) : c \in LiveItems("stop_loss"), d \in LiveItems("dca")}

\* auto_trade, main.py lines 406-425: a new engine over a strategies file
LiveInit ==
    /\ BotInit(LiveFiles)
    /\ now = 10 * PollSeconds

\* load_strategies(), then start(), which may be called again once it has
\* returned
NextLive ==
    \/ LoadStrategies
    \/ Start
    \/ TickStart
    \/ StrategyStep
    \/ Sleep

\* the polling loop of a process that keeps running: start() is one
\* sequential loop, so each of its steps (the top of the while loop, the
\* next item of the for loop, the sleep) is taken once it is the next one,
\* and each of them changes the place in the loop.  When load_strategies()
\* and start() are called is up to the caller
SpecLive ==
    /\ LiveInit
    /\ [][NextLive]_vars
    /\ WF_<<loop_pc, todo>>(TickStart)
    /\ WF_<<loop_pc, todo>>(StrategyStep)
    /\ WF_<<loop_pc, todo>>(Sleep)

(***************************************************************************)
(* The registry over several spellings of two symbols                      *)
(***************************************************************************)
\* spellings of the symbols B-USD and E-USD
Spellings ==
    {<<"b">>, <<"B", "-", "U", "S", "D">>, <<" ", "b", "-", "u", "s", "d">>, <<"e">>}

RegConfigs ==
    {Config(ClassOf(type), [symbol |-> sp, enabled |-> en]) :
        type \in StrategyTypes, sp \in Spellings, en \in BOOLEAN}

\* keys a caller may pass to remove_strategy: the keys of the engine, and
\* one under a spelling the engine never files
RegKeys ==
    {Key(type, normalize_symbol_to_usd(sp)) : type \in StrategyTypes, sp \in Spellings}
    \cup {Key("dca", <<"b">>)}

\* strategies files of an earlier run, or edited by hand: entries whose
\* symbols are not in normal form, two of them for one symbol
RegFiles ==
    {Missing,
     save(<<<<Key("stop_loss", <<"b">>),
              Config("StopLossConfig", [symbol |-> <<"b">>])>>>>),
     save(<<<<Key("dca", <<"b">>), Config("DCAConfig", [symbol |-> <<"b">>])>>,
            <<Key("dca", <<"B">> \o USD),
              Config("DCAConfig", [symbol |-> <<"B">> \o USD, enabled |-> FALSE])>>>>)}

RegistryInit ==
    /\ BotInit(RegFiles)
    /\ now = 0

NextRegistry ==
    \/ Add(RegConfigs)
    \/ LoadStrategies
    \/ Remove(RegKeys)
    \/ NewBot

SpecRegistry == RegistryInit /\ [][NextRegistry]_vars

(***************************************************************************)
(* StrategyStorage.save and load, step by step, over any file              *)
(***************************************************************************)
\* what the registry holds and the save does not touch
regVars == <<strategies, last_run, running, loop_pc, tick, todo, step, last_exec, reg,
             bot_ops>>

\* a file that open("w") has truncated, with or without a first part of
\* the document written to it: no JSON text either way
Truncated(part) == [kind |-> "text", text |-> part]

\* save, lines 55-56: mkdir and open("w"); the file is empty from here on.
\* A file that cannot be opened raises OSError
SaveOpen ==
    /\ save_pc \in {"idle", "closed"}
    /\ saved' = configs
    /\ previous' = storage_path
    /\ IF storage_path.kind = "unreadable"
       THEN save_pc' = "raised" /\ UNCHANGED storage_path
       ELSE save_pc' = "open" /\ storage_path' = Truncated("nothing")
    /\ UNCHANGED <<now, max_per_minute, timestamps, rlVars, clVars, keyVars, qtyVars,
                   engVars, smVars, symVars, tradeVars, configs, regVars, fresh>>

\* save, line 57: json.dump writes the document piece by piece
SaveWrite ==
    /\ save_pc = "open"
    /\ save_pc' = "writing"
    /\ storage_path' = Truncated("a first part")
    /\ UNCHANGED <<now, max_per_minute, timestamps, rlVars, clVars, keyVars, qtyVars,
                   engVars, smVars, symVars, tradeVars, configs, regVars, saved, previous, fresh>>

\* save, lines 56-57: the with block ends, the whole document is in the file
SaveClose ==
    /\ save_pc \in {"open", "writing"}
    /\ save_pc' = "closed"
    /\ storage_path' = save(saved)
    /\ UNCHANGED <<now, max_per_minute, timestamps, rlVars, clVars, keyVars, qtyVars,
                   engVars, smVars, symVars, tradeVars, configs, regVars, saved, previous, fresh>>

\* the process is interrupted or killed inside save
Interrupt ==
    /\ save_pc \in {"open", "writing"}
    /\ save_pc' = "interrupted"
    /\ UNCHANGED <<now, max_per_minute, timestamps, rlVars, clVars, keyVars, qtyVars,
                   engVars, smVars, symVars, tradeVars, configs, storage_path, regVars, saved, previous, fresh>>

\* a new StrategyStorage loads the file (lines 18-40), and so does a new
\* engine (load_strategies, lines 96-112)
StorageLoad ==
    /\ save_pc \in {"idle", "closed", "raised", "interrupted"}
    /\ fresh.after /= save_pc
    /\ LET r == load(storage_path) IN
       fresh' = [after |-> save_pc, file |-> storage_path, result |-> r,
                  engine |-> IF r.raised /= "none" THEN r
                             ELSE Returns(LoadInto(r.value, <<>>, <<>>).configs)]
    /\ UNCHANGED <<now, max_per_minute, timestamps, rlVars, clVars, keyVars, qtyVars,
                   engVars, smVars, symVars, tradeVars, configs, storage_path, regVars, save_pc, saved, previous>>

\* entries of the dicts handed to save: keys of the engine's form, a key
\* under another spelling and a key of no strategy type, each with a config
\* of either class
StoreKeys ==
    {Key("stop_loss", <<"B">> \o USD), Key("dca", <<"B">> \o USD), Key("dca", <<"b">>),
     Key("other", <<"B">> \o USD)}
StoreConfigs ==
    {Config(class, [symbol |-> sp]) :
        class \in {"StopLossConfig", "DCAConfig"}, sp \in {<<"B">> \o USD, <<"b">>}}
    \cup {Config("DCAConfig", [symbol |-> <<"B">> \o USD, enabled |-> FALSE])}

RECURSIVE Dicts(_)
Dicts(n) ==
    IF n = 0 THEN {<<>>}
    ELSE Dicts(n - 1) \cup
         {Append(d, <<k, c>>) : d \in {x \in Dicts(n - 1) : Len(x) = n - 1},
                                  k \in StoreKeys, c \in StoreConfigs}
StoreDicts == {d \in Dicts(MaxConfigs) : Cardinality(DictKeys(d)) = Len(d)}

\* files the store may find: none, one it cannot open, one that is no
\* UTF-8, one that is no JSON text, a JSON value of another structure, and
\* documents of an earlier save
OneStrategy == <<<<Key("dca", <<"E">> \o USD), Config("DCAConfig", [symbol |-> <<"E">> \o USD])>>>>

\* an entry of a strategies file with a strategy_type tag, as save writes it
\* or as edited by hand
Entry(tag, config) ==
    LET config_dict == asdict(config)
    IN Obj([f \in DOMAIN config_dict \cup {"strategy_type"} |->
               IF f = "strategy_type" THEN tag ELSE config_dict[f]])

\* a file with entries of an unknown strategy type and of no strategy type
\* among entries of the engine's types
MixedEntries ==
    <<Entry("dca", Config("DCAConfig", [symbol |-> <<"E">> \o USD])),
      Entry("grid", Config("StopLossConfig", [symbol |-> <<"B">> \o USD])),
      Obj(asdict(Config("DCAConfig", [symbol |-> <<"B">> \o USD]))),
      Entry("stop_loss", Config("StopLossConfig", [symbol |-> <<"b">>]))>>
StoreFiles ==
    {Missing,
     [kind |-> "unreadable"],
     [kind |-> "not_utf8"],
     Truncated("nothing"),
     [kind |-> "json", data |-> Arr(<<>>)],
     [kind |-> "json", data |-> Obj([strategies |-> Null])],
     [kind |-> "json", data |-> Obj([strategies |-> Arr(<<Null>>)])],
     [kind |-> "json", data |-> Obj([strategies |-> Arr(<<Obj([strategy_type |-> "dca"])>>)])],
     [kind |-> "json", data |-> Obj([entry_prices |-> Obj(<<>>)])],
     save(<<>>),
     save(OneStrategy),
     [kind |-> "json", data |-> Obj([strategies |-> Arr(MixedEntries)])],
     [kind |-> "json", data |-> Obj([strategies |-> Arr(SubSeq(MixedEntries, 2, 2))])]}

StoreInit ==
    /\ ClientIdle
    /\ QtyOff
    /\ EngineOff
    /\ ManagerOff
    /\ SymbolsOff
    /\ TradeOff
    /\ now = 0
    /\ configs \in StoreDicts
    /\ storage_path \in StoreFiles
    /\ strategies = <<>>
    /\ last_run = <<>>
    /\ running = FALSE
    /\ loop_pc = "stopped"
    /\ tick = 0
    /\ todo = <<>>
    /\ step = NoStep
    /\ last_exec = <<>>
    /\ reg = NoReg
    /\ bot_ops = 0
    /\ save_pc = "idle"
    /\ saved = <<>>
    /\ previous = storage_path
    /\ fresh = NoLoad

NextStore ==
    \/ SaveOpen
    \/ SaveWrite
    \/ SaveClose
    \/ Interrupt
    \/ StorageLoad

SpecStore == StoreInit /\ [][NextStore]_vars

(***************************************************************************)
(* AutomatedTradingBot: the trailing-stop strategy                         *)
(***************************************************************************)
\* the operations of the client that place an order, and the one that
\* cancels one
PlaceOps ==
    {"place_market_buy_order", "place_market_sell_order", "place_limit_order",
     "place_stop_loss_order", "place_stop_limit_order"}
CancelOps == {"cancel_order"}

\* the calls of _get_position_value, lines 139-165: the holdings, and the
\* price when the holdings came back and list the asset
PositionValueCalls(h1, listed) ==
    <<"get_holdings">> \o (IF h1 /\ listed THEN <<"get_crypto_price">> ELSE <<>>)

\* a variant of TrailingStopCalls that sells a position it finds
TrailingStopCallsSelling(p1, h1, listed, quantity, p2) ==
    <<"get_crypto_price">>
        \o (IF p1 = NoPrice THEN <<>>
            ELSE PositionValueCalls(h1, listed)
                 \o (IF PositionValue(h1 /\ listed, quantity, IF p2 THEN p1 ELSE NoPrice) = 0
                     THEN <<>> ELSE <<"place_market_sell_order">>))

\* _execute_trailing_stop_strategy, lines 210-226: the calls it makes to
\* the client, in order; the log line 223 is no call
TrailingStopCalls(p1, h1, listed, quantity, p2) ==
    <<"get_crypto_price">>
        \o (IF p1 = NoPrice THEN <<>> ELSE PositionValueCalls(h1, listed))

\* the account after the calls: a market sell that returns a result sells
\* the whole position, as in _sell_position
HoldingAfter(quantity, calls, ok) ==
    IF ok /\ \E i \in DOMAIN calls : calls[i] = "place_market_sell_order"
    THEN 0 ELSE quantity

\* the strategy function of a key is called as start() calls it, line 310
ExecuteTrailingStop ==
    /\ execs < MaxExecs
    /\ execs' = execs + 1
    /\ \E strategy_name \in DictKeys(strategies) :
         /\ DictGet(strategies, strategy_name) = "_execute_trailing_stop_strategy"
         /\ \E p1 \in PriceOutcomes, h1 \in BOOLEAN, listed \in BOOLEAN, p2 \in BOOLEAN,
               ok \in BOOLEAN :
              /\ holding > 0 => listed
              /\ LET calls == TrailingStopCalls(p1, h1, listed, holding, p2) IN
                 /\ exec' = [ExecStart("trailing_stop") EXCEPT
                                !.price = p1, !.h1 = h1, !.p2 = p2, !.calls = calls]
                 /\ holding' = HoldingAfter(holding, calls, ok)
    /\ UNCHANGED <<now, max_per_minute, timestamps, rlVars, clVars, keyVars, qtyVars,
                   botVars, storeVars, smVars, symVars, tradeVars, state, state_file, dca_config, dca_start>>

\* the configs of the engine: a trailing stop on b, alone or next to a stop
\* loss on the same symbol
TrailingConfigs ==
    LET one == AddStrategy(<<>>, <<>>, "trailing_stop",
                           Config("TrailingStopConfig", [symbol |-> <<"b">>]))
        two == AddStrategy(one.configs, one.strategies, "stop_loss",
                           Config("StopLossConfig", [symbol |-> <<"b">>]))
    IN {one, two}

\* the engine over the files of an earlier run, with or without a position
\* and a recorded entry price and DCA record
TrailingInit ==
    /\ ClientIdle
    /\ QtyOff
    /\ StoreOff
    /\ ManagerOff
    /\ SymbolsOff
    /\ TradeOff
    /\ now = 0
    /\ holding \in {0, 1}
    /\ \E e \in {NoPrice, 1000}, c \in {0, 1} :
          /\ (e /= NoPrice => holding > 0)
          /\ state_file = [entry_price |-> e,
                           last_purchase_at |-> IF c = 0 THEN NoTime ELSE 0,
                           purchase_count |-> c]
          /\ dca_start = c
    /\ state = state_file
    /\ dca_config = [frequency_days |-> 1, max_purchases |-> 0]
    /\ exec = NoExec
    /\ execs = 0
    /\ \E r \in TrailingConfigs :
          /\ configs = r.configs
          /\ strategies = r.strategies
          /\ storage_path = save(r.configs)
    /\ last_run = <<>>
    /\ running = FALSE
    /\ loop_pc = "stopped"
    /\ tick = 0
    /\ todo = <<>>
    /\ step = NoStep
    /\ last_exec = <<>>
    /\ reg = NoReg
    /\ bot_ops = 0

NextTrailing ==
    \/ ExecuteTrailingStop
    \/ ExecuteStopLoss
    \/ Restart

SpecTrailing == TrailingInit /\ [][NextTrailing]_vars

(***************************************************************************)
(* normalize_symbol_to_usd applied to what it returned                     *)
(***************************************************************************)
\* the characters of the arguments: white space, a lower-case and an
\* upper-case letter, the hyphen, and a letter whose upper case is two
\* characters
SymbolChars == {" ", "\t", "b", "E", "-", "sharp_s"}

\* every str of exactly n characters
RECURSIVE Strs(_)
Strs(n) ==
    IF n = 0 THEN {<<>>}
    ELSE {<<c>> \o s : c \in SymbolChars, s \in Strs(n - 1)}

\* spellings of the suffix, and none
Suffixes ==
    {<<>>, USD, <<"-", "u", "s", "d">>, <<"-", "U", "s", "d", " ">>, <<"U", "S", "D">>}

\* the arguments: every str of up to MaxSymbolLen characters, alone and
\* followed by a spelling of the suffix
SymbolArgs ==
    {s \o t : s \in UNION {Strs(n) : n \in 0..MaxSymbolLen}, t \in Suffixes}

SymbolsInit ==
    /\ BotInit({Missing})
    /\ now = 0

\* what a call of normalize_symbol_to_usd does not write
symRest == <<now, max_per_minute, timestamps, rlVars, clVars, keyVars, qtyVars, engVars,
             botVars, storeVars, smVars, tradeVars>>

\* normalize_symbol_to_usd(symbol) is called
Normalize ==
    /\ sym_pc = "none"
    /\ \E symbol \in SymbolArgs :
         /\ sym_arg' = symbol
         /\ sym_out' = normalize_symbol_to_usd(symbol)
    /\ sym_pc' = "once"
    /\ UNCHANGED <<symRest, sym_again>>

\* normalize_symbol_to_usd is called with what it returned, as
\* _get_position_value does at lines 142 and 147
NormalizeAgain ==
    /\ sym_pc = "once"
    /\ sym_again' = normalize_symbol_to_usd(sym_out)
    /\ sym_pc' = "twice"
    /\ UNCHANGED <<symRest, sym_arg, sym_out>>

NextSymbols == Normalize \/ NormalizeAgain

SpecSymbols == SymbolsInit /\ [][NextSymbols]_vars

(***************************************************************************)
(* TradingBot.buy_crypto and sell_crypto (trading/trading_bot.py) and the  *)
(* CLI commands buy and sell (main.py)                                     *)
(***************************************************************************)
\* _SYMBOL_RE, line 5 of symbols.py: ^[A-Z0-9]+(-USD)?$
SymbolRe(s) ==
    LET base == IF EndsWith(s, USD) THEN SubSeq(s, 1, Len(s) - Len(USD)) ELSE s
    IN /\ base /= <<>>
       /\ \A i \in DOMAIN base : base[i] \in UpperOrDigit

\* a variant of validate_symbol that accepts every symbol
validate_any_symbol(symbol) == TRUE

\* validate_symbol, lines 16-21 of symbols.py
validate_symbol(symbol) ==
    IF symbol = <<>> THEN FALSE ELSE SymbolRe(Upper(Strip(symbol)))

\* a < b for two decimals (or a float and a decimal) with plain coefficients
Less(a, b) == a.coef * Pow10(b.exp) < b.coef * Pow10(a.exp)

\* click.FloatRange(min=0.01), main.py lines 157 and 190
FloatRangeMin == Dec(1, 2)

\* what the holdings lookup answers: None, a dict without results, results
\* without the asset, and results with a quantity of the asset
HoldingsOutcomes ==
    {NoHoldings, [kind |-> "no_results"], [kind |-> "absent"]}
        \cup {[kind |-> "held", quantity |-> Dec(c, 1)] : c \in {0, 3, 10}}

\* what the price lookup of sell_crypto answers: None, and a price string
PriceData == {[kind |-> "none"]} \cup {[kind |-> "price", price |-> Dec(c, e)] :
                                           c \in {0, 1, 3}, e \in {0, 2}}

\* buy_crypto, lines 112-141
buy_crypto(symbol, amount, buying_power, placed) ==
    IF amount.coef <= 0 THEN Outcome("ValueError", "none", 0)
    ELSE IF ~validate_symbol(symbol) THEN Outcome("ValueError", "none", 0)
    ELSE IF Less(buying_power, amount) THEN Outcome("ValueError", "none", 0)
    ELSE Outcome("none", IF placed THEN "order" ELSE "None", 1)

\* sell_crypto, lines 143-197
sell_crypto(symbol, amount, holdings, price_data, placed) ==
    IF amount.coef <= 0 THEN Outcome("ValueError", "none", 0)
    ELSE IF ~validate_symbol(symbol) THEN Outcome("ValueError", "none", 0)
    ELSE IF holdings.kind \in {"none", "no_results"} THEN Outcome("ValueError", "none", 0)
    ELSE IF holdings.kind = "absent" THEN Outcome("ValueError", "none", 0)
    ELSE IF price_data.kind = "none" THEN Outcome("RuntimeError", "none", 0)
    ELSE IF price_data.price.coef = 0 THEN Outcome("RuntimeError", "none", 0)
    ELSE LET quantity_to_sell == TrueDiv(amount, price_data.price) IN
         IF QuantizeRaises(quantity_to_sell) THEN Outcome("InvalidOperation", "none", 0)
         ELSE IF Less(holdings.quantity, QuantizeDown(quantity_to_sell))
         THEN Outcome("ValueError", "none", 0)
         ELSE Outcome("none", IF placed THEN "order" ELSE "None", 1)

\* the commands buy and sell of main.py, lines 156-212, after validate_auth:
\* the exit code for the outcome of the TradingBot call
ExitCode(outcome) ==
    IF outcome.raised = "ValueError" THEN 1
    ELSE IF outcome.raised /= "none" THEN 2
    ELSE IF outcome.value = "order" THEN 0
    ELSE 2

\* click rejects an amount below the minimum with a usage error, exit code
\* 2, before the body of the command runs
UsageError == Outcome("BadParameter", "none", 0)

TradeSymbols ==
    {<<"b">>, <<"B">> \o USD, <<" ", "E", " ">>, <<"b", "!">>, <<>>, <<"b", " ", "E">>}
TradeAmounts == {Dec(0 - 1, 0), Dec(0, 0), Dec(5, 3), Dec(1, 0), Dec(3, 0)}
TradePowers == {Dec(0, 0), Dec(1, 0), Dec(2, 0)}

TradeInit ==
    /\ BotInit({Missing})
    /\ now = 0

\* what a call of the TradingBot does not write
tradeRest == <<now, max_per_minute, timestamps, rlVars, clVars, keyVars, qtyVars, engVars,
               botVars, storeVars, smVars, symVars>>

\* TradingBot.buy_crypto(symbol, amount) is called
BuyCrypto ==
    /\ trade.op = "none"
    /\ \E symbol \in TradeSymbols, amount \in TradeAmounts, bp \in TradePowers,
          placed \in BOOLEAN :
         trade' = [NoTrade EXCEPT !.op = "buy", !.symbol = symbol, !.amount = amount,
                                  !.buying_power = bp,
                                  !.outcome = buy_crypto(symbol, amount, bp, placed)]
    /\ UNCHANGED tradeRest

\* TradingBot.sell_crypto(symbol, amount) is called
SellCrypto ==
    /\ trade.op = "none"
    /\ \E symbol \in TradeSymbols, amount \in TradeAmounts, h \in HoldingsOutcomes,
          p \in PriceData, placed \in BOOLEAN :
         trade' = [NoTrade EXCEPT !.op = "sell", !.symbol = symbol, !.amount = amount,
                                  !.holdings = h, !.price_data = p,
                                  !.outcome = sell_crypto(symbol, amount, h, p, placed)]
    /\ UNCHANGED tradeRest

\* python main.py buy SYMBOL AMOUNT, lines 156-185
CliBuy ==
    /\ trade.op = "none"
    /\ \E symbol \in TradeSymbols, amount \in TradeAmounts, bp \in TradePowers,
          placed \in BOOLEAN :
         LET outcome == IF Less(amount, FloatRangeMin) THEN UsageError
                        ELSE buy_crypto(symbol, amount, bp, placed)
         IN trade' = [NoTrade EXCEPT !.op = "buy", !.cli = TRUE, !.symbol = symbol,
                                     !.amount = amount, !.buying_power = bp,
                                     !.outcome = outcome, !.exit = ExitCode(outcome)]
    /\ UNCHANGED tradeRest

\* python main.py sell SYMBOL AMOUNT, lines 188-212
CliSell ==
    /\ trade.op = "none"
    /\ \E symbol \in TradeSymbols, amount \in TradeAmounts, h \in HoldingsOutcomes,
          p \in PriceData, placed \in BOOLEAN :
         LET outcome == IF Less(amount, FloatRangeMin) THEN UsageError
                        ELSE sell_crypto(symbol, amount, h, p, placed)
         IN trade' = [NoTrade EXCEPT !.op = "sell", !.cli = TRUE, !.symbol = symbol,
                                     !.amount = amount, !.holdings = h, !.price_data = p,
                                     !.outcome = outcome, !.exit = ExitCode(outcome)]
    /\ UNCHANGED tradeRest

NextTrade == BuyCrypto \/ SellCrypto \/ CliBuy \/ CliSell

SpecTrade == TradeInit /\ [][NextTrade]_vars

(***************************************************************************)
(* StateManager (storage/state_manager.py) over several symbols            *)
(***************************************************************************)
\* self._state.setdefault(name, {})
SetDefault(st, name) == IF name \in DOMAIN st THEN st ELSE (name :> <<>>) @@ st

\* float(value), line 33: the number itself
float(value) == value

\* get_entry_price, lines 31-33; NoPrice stands for None
get_entry_price(st, symbol) ==
    LET value == Get(Get(st, "entry_prices", <<>>), symbol, NoPrice)
    IN IF value /= NoPrice THEN float(value) ELSE NoPrice

\* set_entry_price, line 36
set_entry_price(st, symbol, price) ==
    LET st1 == SetDefault(st, "entry_prices")
    IN [st1 EXCEPT !["entry_prices"] = (symbol :> price) @@ @]

\* a variant of clear_entry_price that empties the whole map
clear_every_entry_price(st, symbol) ==
    [SetDefault(st, "entry_prices") EXCEPT !["entry_prices"] = <<>>]

\* clear_entry_price, line 40
clear_entry_price(st, symbol) ==
    LET st1 == SetDefault(st, "entry_prices")
    IN [st1 EXCEPT !["entry_prices"] = [x \in DOMAIN @ \ {symbol} |-> @[x]]]

\* get_dca_state, lines 43-44
get_dca_state(st, symbol) == Get(Get(st, "dca", <<>>), symbol, <<>>)

\* datetime.isoformat(): a string that holds the time
isoformat(t) == <<"iso", t>>

\* update_dca_state, lines 47-51; NoTime stands for no datetime, and for
\* the None written in its place
update_dca_state(st, symbol, last_purchase_at, purchase_count) ==
    LET record == [last_purchase_at |-> IF last_purchase_at /= NoTime
                                        THEN isoformat(last_purchase_at) ELSE <<>>,
                   purchase_count |-> purchase_count]
        st1 == SetDefault(st, "dca")
    IN [st1 EXCEPT !["dca"] = (symbol :> record) @@ @]

\* StateManager._save, lines 26-29, once the file is written and closed
SaveState(st) == [kind |-> "json", data |-> st]

\* StateManager.__init__ and _load, lines 14-24: the state a new manager
\* starts with over the file
LoadState(file) ==
    IF file.kind = "missing" THEN DefaultState
    ELSE IF file.kind \in {"unreadable", "text"} THEN DefaultState
    ELSE file.data

StateSymbols == {<<"B">> \o USD, <<"E">> \o USD}
EntryPrices == {950, 1000}

\* the state file of an earlier run and what it holds: no file, a file cut
\* short, an empty JSON object, and a file with an entry price for E-USD
EarlierStates ==
    {<<Missing, DefaultState>>,
     <<Truncated("nothing"), DefaultState>>,
     <<SaveState(<<>>), DefaultState>>,
     <<SaveState([entry_prices |-> (<<"E">> \o USD) :> 1000, dca |-> <<>>]),
       [entry_prices |-> (<<"E">> \o USD) :> 1000, dca |-> <<>>]>>}

StateInit ==
    /\ ClientIdle
    /\ QtyOff
    /\ EngineOff
    /\ StoreOff
    /\ SymbolsOff
    /\ TradeOff
    /\ now = 0
    /\ configs = <<>>
    /\ strategies = <<>>
    /\ last_run = <<>>
    /\ running = FALSE
    /\ storage_path = Missing
    /\ loop_pc = "stopped"
    /\ tick = 0
    /\ todo = <<>>
    /\ step = NoStep
    /\ last_exec = <<>>
    /\ reg = NoReg
    /\ bot_ops = 0
    /\ \E e \in EarlierStates :
          /\ state_path = e[1]
          /\ manager = LoadState(e[1])
          /\ expected = e[2]

\* what the state manager never writes
smRest == <<now, max_per_minute, timestamps, rlVars, clVars, keyVars, qtyVars,
            engVars, symVars, tradeVars,
            storeVars, configs, strategies, last_run, running, storage_path, loop_pc,
            tick, todo, step, last_exec>>

DcaTimes == {NoTime, 0}
DcaCounts == {1, 2}

\* StateManager.set_entry_price(symbol, price), lines 35-37
SetEntry ==
    /\ bot_ops < MaxBotOps
    /\ \E symbol \in StateSymbols, price \in EntryPrices :
         /\ manager' = set_entry_price(manager, symbol, price)
         /\ expected' = [expected EXCEPT !.entry_prices = (symbol :> price) @@ @]
         /\ reg' = [NoReg EXCEPT !.op = "set_entry_price", !.key = symbol]
    /\ state_path' = SaveState(manager')
    /\ bot_ops' = bot_ops + 1
    /\ UNCHANGED smRest

\* StateManager.clear_entry_price(symbol), lines 39-41
ClearEntry ==
    /\ bot_ops < MaxBotOps
    /\ \E symbol \in StateSymbols :
         /\ manager' = clear_entry_price(manager, symbol)
         /\ expected' = [expected EXCEPT !.entry_prices =
                            [x \in DOMAIN @ \ {symbol} |-> @[x]]]
         /\ reg' = [NoReg EXCEPT !.op = "clear_entry_price", !.key = symbol,
                                 !.had = symbol \in DOMAIN expected.entry_prices]
    /\ state_path' = SaveState(manager')
    /\ bot_ops' = bot_ops + 1
    /\ UNCHANGED smRest

\* StateManager.update_dca_state(symbol, last_purchase_at, purchase_count),
\* lines 46-52
UpdateDca ==
    /\ bot_ops < MaxBotOps
    /\ \E symbol \in StateSymbols, t \in DcaTimes, n \in DcaCounts :
         /\ manager' = update_dca_state(manager, symbol, t, n)
         /\ expected' = [expected EXCEPT !.dca =
                            (symbol :> [last_purchase_at |-> IF t = NoTime THEN <<>>
                                                             ELSE <<"iso", t>>,
                                        purchase_count |-> n]) @@ @]
         /\ reg' = [NoReg EXCEPT !.op = "update_dca_state", !.key = symbol]
    /\ state_path' = SaveState(manager')
    /\ bot_ops' = bot_ops + 1
    /\ UNCHANGED smRest

\* a later run of the program: StateManager(state_path), lines 12-15
NewStateManager ==
    /\ bot_ops < MaxBotOps
    /\ reg.op /= "StateManager"
    /\ manager' = LoadState(state_path)
    /\ reg' = [NoReg EXCEPT !.op = "StateManager"]
    /\ bot_ops' = bot_ops + 1
    /\ UNCHANGED <<state_path, expected, smRest>>

NextState == SetEntry \/ ClearEntry \/ UpdateDca \/ NewStateManager

SpecState == StateInit /\ [][NextState]_vars

(***************************************************************************)
(* Properties of the client                                                *)
(***************************************************************************)
RECURSIVE SumSeq(_)
SumSeq(q) == IF q = <<>> THEN 0 ELSE q[1] + SumSeq(Tail(q))

\* min(RETRY_BACKOFF_BASE * 2^(i-1), RETRY_BACKOFF_MAX), as the specification writes it
ExpectedBackoff(i) ==
    IF RETRY_BACKOFF_BASE * (2 ^ (i - 1)) < RETRY_BACKOFF_MAX
    THEN RETRY_BACKOFF_BASE * (2 ^ (i - 1))
    ELSE RETRY_BACKOFF_MAX

\* the client is inside the retry loop of _make_request
InCall == pc \in {"loop", "inflight", "backoff"}

\* C1 as stated: no request, first attempt or retry, is sent (is in flight
\* from) a time earlier than circuit_open_until.  Stated for the runs
\* without a 4xx response other than 429, whose retries are all retries the
\* specification asks for.
C1_NoRequestWhileOpen ==
    (pc = "inflight" /\ ~client_error_seen) => now >= circuit_open_until

\* C1 as amended: the first attempt of a call is never sent before
\* circuit_open_until; a request sent before circuit_open_until is a retry
\* of a call that was entered with the breaker closed and whose own failures
\* opened (or extended) the breaker.
C1_NoNewCallWhileOpen ==
    /\ (pc = "inflight" /\ attempts = 1) => now >= circuit_open_until
    /\ (pc = "inflight" /\ now < circuit_open_until) =>
            /\ attempts > 1
            /\ attempts <= RETRY_MAX + 1
            /\ call.start >= call.open_at_start
            /\ circuit_open_until > call.open_at_start

\* C1 witness: after a cooldown, the first attempt of a new call is in flight
C1_FirstAttemptAfterCooldown ==
    /\ pc = "inflight"
    /\ attempts = 1
    /\ circuit_open_until > 0
    /\ now >= circuit_open_until

\* C2: a call is rejected exactly when it starts before circuit_open_until; a
\* rejected call returns None and has sent nothing, taken no limiter slot,
\* slept nowhere and let no time pass; a call that is not rejected sends a
\* request; a call made less than CIRCUIT_BREAKER_TIMEOUT seconds after the
\* last of CIRCUIT_BREAKER_THRESHOLD or more consecutive failures is rejected.
C2_RejectedIffOpen ==
    /\ call.rejected <=> call.start < call.open_at_start
    /\ call.rejected =>
            /\ pc = "ret"
            /\ result = "None"
            /\ call.sent = 0
            /\ call.slots = 0
            /\ timestamps = call.ts_at_start
            /\ call.slept = <<>>
            /\ call.limited = 0
            /\ now = call.start
    /\ (pc \in {"inflight", "backoff", "ret"} /\ ~call.rejected) => call.sent >= 1
    /\ call.tripped => call.rejected

\* C2 witness: a call made during the cooldown that followed
\* CIRCUIT_BREAKER_THRESHOLD consecutive failures has been rejected
C2_RejectedDuringCooldown ==
    /\ call.rejected
    /\ call.tripped
    /\ pc = "ret"
    /\ failure_count >= CIRCUIT_BREAKER_THRESHOLD
    /\ rejections = 1

\* C3: after a 4xx response other than 429 the call sends no further request
\* and returns None.
C3_ClientErrorNotRetried ==
    call.last = "client_error" =>
        /\ pc /= "inflight"
        /\ pc = "ret" => result = "None"

\* C6: one call sends at most RETRY_MAX + 1 requests, and returns: inside the
\* loop a step is always possible, and every step either returns or lowers
\* the number of steps the loop has left.
LoopRank ==
    3 * (RETRY_MAX + 1 - attempts)
        + (IF pc = "inflight" THEN 2 ELSE IF pc = "backoff" THEN 1 ELSE 0)

C6_AtMostRetryMaxPlusOne ==
    /\ [](/\ call.sent <= RETRY_MAX + 1
          /\ InCall => call.sent = attempts
          /\ InCall => LoopRank >= 0
          /\ InCall => ENABLED (Attempt \/ Exhausted \/ Respond \/ BackoffSleep))
    /\ [][InCall => (pc' = "ret" \/ (InCall' /\ LoopRank' < LoopRank))]_vars

\* C6 witness: a call has returned None after RETRY_MAX + 1 requests
C6_Exhausted ==
    /\ pc = "ret"
    /\ call.sent = RETRY_MAX + 1
    /\ call.ok_at = 0
    /\ result = "None"

C8_SleptOnlyBackoffs ==
    (pc = "ret" /\ call.ok_at > 0 /\ ~client_error_seen) =>
        SumSeq(call.slept) + call.waited
            = SumSeq([i \in 1..(call.ok_at - 1) |-> ExpectedBackoff(i)])

\* C8 as amended: the backoff sleep after failed attempt i is exactly
\* min(RETRY_BACKOFF_BASE * 2^(i-1), RETRY_BACKOFF_MAX), there is one after
\* every failed attempt but the (RETRY_MAX + 1)th, and a call has slept the
\* sum of those backoffs plus the time RateLimiter.wait() made it sleep.
C8_BackoffSchedule ==
    /\ \A i \in DOMAIN call.slept : call.slept[i] = ExpectedBackoff(i)
    /\ pc \in {"inflight", "backoff"} => Len(call.slept) = attempts - 1
    /\ pc = "loop" => Len(call.slept) = Min(attempts, RETRY_MAX)
    /\ (pc = "ret" /\ call.ok_at > 0) => Len(call.slept) = call.ok_at - 1
    /\ (pc = "ret" /\ call.ok_at = 0 /\ ~call.rejected) => Len(call.slept) = RETRY_MAX
    /\ (InCall \/ pc = "ret") =>
            now - call.start = call.net + SumSeq(call.slept) + call.limited

\* C8 witness: a call succeeded on its last attempt, after three backoffs (the
\* third capped) and a wait in the limiter between two attempts
C8_SucceedsAfterCappedBackoff ==
    /\ pc = "ret"
    /\ call.ok_at = RETRY_MAX + 1
    /\ call.waited > 0
    /\ RETRY_BACKOFF_BASE * (2 ^ RETRY_MAX) > RETRY_BACKOFF_MAX

C10_ClientOrderIdPerCall ==
    \A p \in posts, q \in posts : (p[1] = q[1]) <=> (p[2] = q[2])

\* C10 witness: a second order-placement call is retrying its order request
C10_TwoOrdersWithRetries ==
    /\ Cardinality(posts) = 2
    /\ pc = "inflight"
    /\ attempts >= 2
    /\ kwargs /= 0

\* C11: a public operation whose requests all failed (non-2xx responses,
\* timeouts, connection errors, or the open breaker) does not raise and
\* returns its no-result value: None, False for cancel_order, 0 for
\* get_buying_power.
C11_NoResultOnFailure ==
    (returned.op /= "none" /\ returned.failed) =>
        returned.value = (IF returned.op = "cancel" THEN "False"
                          ELSE IF returned.op = "buying_power" THEN "0"
                          ELSE "None")

\* cancel_order has returned False after RETRY_MAX + 1 failed requests
C11_CancelFailsAfterRetries ==
    /\ pc = "idle"
    /\ returned.op = "cancel"
    /\ returned.failed
    /\ returned.sent = RETRY_MAX + 1
    /\ returned.value = "False"

\* C12: a client with a missing or malformed credential fails in its
\* constructor; none is constructed and then fails on the request path, when
\* a request is to be signed.
C12_FailsAtConstruction ==
    (API_KEY /= "set" \/ BASE64_PRIVATE_KEY /= "valid") => pc /= "raise"

\* one caller
NextRL1 == RLStep(1) \/ RLTick
SpecRL1 == RLInit /\ [][NextRL1]_vars

\* two callers on the same limiter
NextRL2 == RLStep(1) \/ RLStep(2) \/ RLTick
SpecRL2 == RLInit /\ [][NextRL2]_vars

\* number of recorded requests in the trailing window (t - 60, t]
WindowCount(t) ==
    Cardinality({i \in DOMAIN recorded : t - WINDOW < recorded[i] /\ recorded[i] <= t})

\* C4: with one caller, no trailing 60-second window holds more than
\* max_per_minute recorded requests (max_per_minute > 0).
C4_WindowNeverExceeded ==
    max_per_minute > 0 =>
        \A i \in DOMAIN recorded : WindowCount(recorded[i]) <= max_per_minute

\* C5: with two callers interleaving their steps of wait(), no trailing
\* 60-second window, ending at any clock value so far, holds more than
\* max_per_minute recorded requests.
C5_ConcurrentWindowNeverExceeded ==
    max_per_minute > 0 =>
        \A t \in 0..now : WindowCount(t) <= max_per_minute

(***************************************************************************)
(* Properties of the strategy engine                                       *)
(***************************************************************************)
\* the last execution was one of the DCA strategy, of the stop-loss strategy
DcaRan == exec.strategy = "dca"
StopLossRan == exec.strategy = "stop_loss"

\* the interval of the DCA config, in clock units
Interval == dca_config.frequency_days * DayLength

\* C14: with a nonzero max_purchases and a purchase_count that started at or
\* below it, purchase_count (in memory and on disk) never exceeds
\* max_purchases; an execution that starts with purchase_count >=
\* max_purchases issues no buy.
C14_CapRespected ==
    /\ (dca_config.max_purchases /= 0 /\ dca_start <= dca_config.max_purchases) =>
            /\ state.purchase_count <= dca_config.max_purchases
            /\ state_file.purchase_count <= dca_config.max_purchases
    /\ (DcaRan /\ dca_config.max_purchases /= 0
               /\ exec.count >= dca_config.max_purchases) => exec.buys = 0

\* C14 witness: the purchases of this run filled the cap, and an execution
\* after the interval had elapsed issued no buy
C14_RefusedAtCap ==
    /\ DcaRan
    /\ dca_start = 0
    /\ dca_config.max_purchases >= 1
    /\ exec.count = dca_config.max_purchases
    /\ exec.start >= exec.last + Interval
    /\ exec.buys = 0

\* C15: no buy is issued before last_purchase_at + frequency_days, when
\* last_purchase_at is recorded; two recorded purchases are at least
\* frequency_days apart.
C15_IntervalRespected ==
    (DcaRan /\ exec.buys > 0 /\ exec.last /= NoTime) =>
        /\ exec.start >= exec.last + Interval
        /\ exec.buy_ok => state.last_purchase_at >= exec.last + Interval

\* C15 witness: a second purchase, made exactly frequency_days after the first
C15_BoughtAtInterval ==
    /\ DcaRan
    /\ exec.last /= NoTime
    /\ exec.start = exec.last + Interval
    /\ exec.buy_ok
    /\ state.last_purchase_at >= exec.last + Interval

\* C16: an execution with the cap not reached, the interval elapsed (or no
\* purchase recorded) and buying power >= amount_per_purchase issues exactly
\* one buy; when the buy succeeds the persisted purchase_count is one more
\* and last_purchase_at is the clock value at which the buy returned, a time
\* within the execution.
C16_OnePurchaseRecorded ==
    (/\ DcaRan
     /\ (dca_config.max_purchases = 0 \/ exec.count < dca_config.max_purchases)
     /\ (exec.last = NoTime \/ exec.start >= exec.last + Interval)
     /\ exec.bp >= amount_per_purchase) =>
        /\ exec.buys = 1
        /\ exec.buy_ok =>
              /\ state_file.purchase_count = exec.count + 1
              /\ state_file.last_purchase_at = exec.end
              /\ exec.start <= exec.end
              /\ state = state_file

\* C16 witness: a purchase with exactly amount_per_purchase of buying power,
\* more than frequency_days after the one before, recorded at the time the
\* buy returned
C16_PurchaseRecorded ==
    /\ DcaRan
    /\ exec.bp = amount_per_purchase
    /\ exec.last /= NoTime
    /\ exec.start > exec.last + Interval
    /\ exec.buy_ok
    /\ exec.end > exec.start
    /\ state_file.last_purchase_at = exec.end
    /\ state_file.purchase_count = exec.count + 1

\* C17: with max_purchases = 0 the cap check stops no execution, whatever
\* purchase_count is: an execution not stopped by the interval goes on to
\* the buying-power lookup, and buys when the buying power suffices.
C17_ZeroIsUnlimited ==
    (/\ DcaRan
     /\ dca_config.max_purchases = 0
     /\ (exec.last = NoTime \/ exec.start >= exec.last + Interval)) =>
        /\ exec.bp /= -1
        /\ exec.bp >= amount_per_purchase => exec.buys = 1

\* C17 witness: with max_purchases = 0, a purchase beyond the largest cap
C17_BoughtBeyondAnyCap ==
    /\ DcaRan
    /\ dca_config.max_purchases = 0
    /\ exec.count > MaxPurchases
    /\ exec.buy_ok
    /\ state.purchase_count = exec.count + 1

\* the stop or the target of entry price e is hit at price p:
\* p <= e * (1 - stop_loss_percentage/100) or p >= e * (1 + profit_target_percentage/100)
Triggered(p, e) ==
    \/ p * 100 <= e * (100 - stop_loss_percentage)
    \/ p * 100 >= e * (100 + profit_target_percentage)

\* the execution found the price and, through _get_position_value, the
\* position of an account that holds the symbol, with an entry price recorded
PositionSeen ==
    /\ StopLossRan
    /\ exec.holding > 0
    /\ exec.entry /= NoPrice
    /\ exec.price /= NoPrice
    /\ exec.h1
    /\ exec.p2

C19_BuyOnlyWithoutPosition ==
    (StopLossRan /\ exec.buys > 0) =>
        /\ exec.holding = 0
        /\ exec.bp >= position_size_usd

\* C20: no step of the engine replaces a recorded entry price by another
\* value, in memory or on disk, except a successful market sell of the
\* position, which clears it.
C20_EntryPriceKept ==
    [][/\ (state.entry_price /= NoPrice /\ state'.entry_price /= state.entry_price) =>
            (exec'.sells = 1 /\ exec'.sell_ok /\ state'.entry_price = NoPrice)
       /\ (state_file.entry_price /= NoPrice
             /\ state_file'.entry_price /= state_file.entry_price) =>
            (exec'.sells = 1 /\ exec'.sell_ok /\ state_file'.entry_price = NoPrice)]_vars


(***************************************************************************)
(* Properties of the polling loop and of the registry                      *)
(***************************************************************************)
\* the last visit of the for loop was of a strategy the engine holds
Visited == step.key /= <<>>

\* C21: in each tick a strategy is executed if and only if its config is
\* enabled and the tick time minus the tick time of its previous finished
\* execution (0 if it never ran) is at least check_interval; a disabled
\* strategy is not executed and its last_run stays as it was.
C21_ExecutedIffDue ==
    Visited =>
        /\ step.executed <=>
              (step.enabled /\ step.tick - step.prev >= step.check_interval)
        /\ (~step.enabled => ~step.executed /\ step.after = step.before)
        /\ (step.executed /\ step.prev /= 0 =>
              step.tick >= step.prev + step.check_interval)

\* a strategy that ran before is executed again exactly check_interval later
C21_RunAgainAtInterval ==
    /\ Visited
    /\ step.executed
    /\ step.prev /= 0
    /\ step.tick - step.prev = step.check_interval


\* C22: an exception raised by the execution of a strategy does not stop the
\* polling loop: the loop keeps running and goes on to the strategies that
\* follow in the same tick, each of which is executed if it is due (C21).
C22_ExceptionDoesNotStopLoop ==
    step.outcome = "Exception" =>
        /\ running
        /\ loop_pc = "iter"
        /\ todo = step.rest
        /\ step.after = step.tick

\* a strategy is executed in a tick in which an earlier one raised
C22_SiblingRunsAfterException ==
    /\ step.executed
    /\ step.raised_before
    /\ step.outcome = "none"


\* a symbol in normal form: no surrounding whitespace, upper case, ends in -USD
IsNormal(symbol) ==
    /\ Strip(symbol) = symbol
    /\ Upper(symbol) = symbol
    /\ EndsWith(symbol, USD)

\* C23: the engine holds at most one config per strategy type and normalized
\* symbol, every key is "{type}_{config.symbol}" with config.symbol in normal
\* form and the config of the class of the type, and a config added for a
\* type and symbol the engine holds, in any spelling, replaces the earlier one.
C23_OneConfigPerTypeAndSymbol ==
    /\ \A i \in DOMAIN configs :
          \E type \in StrategyTypes :
             /\ configs[i][2].class = ClassOf(type)
             /\ configs[i][1] = Key(type, configs[i][2].symbol)
             /\ IsNormal(configs[i][2].symbol)
    /\ \A i, j \in DOMAIN configs :
          (/\ configs[i][2].class = configs[j][2].class
           /\ normalize_symbol_to_usd(configs[i][2].symbol)
                 = normalize_symbol_to_usd(configs[j][2].symbol)) => i = j
    /\ reg.op = "add" =>
          /\ reg.key \in DictKeys(configs)
          /\ DictGet(configs, reg.key).enabled = reg.result.enabled
          /\ DictGet(configs, reg.key).class = reg.result.class

\* a config given under another spelling has replaced the config of its key
C23_ReplacedUnderOtherSpelling ==
    /\ reg.op = "add"
    /\ reg.had
    /\ reg.result.symbol = <<"b">>
    /\ ~reg.result.enabled
    /\ Len(configs) = 1


\* a dict as the mapping it is: its set of <<key, config>>
AsMap(d) == {<<d[i][1], d[i][2]>> : i \in DOMAIN d}

\* a load that returned the configs of d, each under its key
SameConfigs(r, d) == r.raised = "none" /\ AsMap(r.value) = AsMap(d)

\* every key of d is "{type}_{config.symbol}" for the type of the class of its config
Canonical(d) ==
    \A i \in DOMAIN d :
       \E type \in StrategyTypes :
          d[i][2].class = ClassOf(type) /\ d[i][1] = Key(type, d[i][2].symbol)

\* every symbol of d is in normal form
Normalized(d) == \A i \in DOMAIN d : IsNormal(d[i][2].symbol)

C25_OldOrNewAfterInterrupt ==
    (/\ fresh.after = "interrupted"
     /\ previous.kind = "json"
     /\ load(previous).raised = "none") =>
        fresh.result \in {load(previous), load(save(saved))}


\* the documents StrategyStorage.save writes
WellFormed(file) ==
    /\ file.kind = "json"
    /\ file.data.type = "object"
    /\ "strategies" \in DOMAIN file.data.members
    /\ file.data.members.strategies.type = "array"
    /\ \A i \in DOMAIN file.data.members.strategies.items :
          LET item == file.data.members.strategies.items[i] IN
          /\ item.type = "object"
          /\ "symbol" \in DOMAIN item.members

\* C26: StrategyStorage.load never raises, and returns an empty mapping for
\* a file that is missing, unreadable, no valid JSON or JSON of another
\* structure than the one save writes.
C26_LoadNeverRaises ==
    fresh.after /= "none" =>
        /\ fresh.result.raised = "none"
        /\ ~WellFormed(fresh.file) => fresh.result.value = <<>>

(***************************************************************************)
(* Properties of the state manager                                         *)
(***************************************************************************)
\* C27: for every symbol, the live manager and a manager newly constructed
\* over the same file both return the entry price last set for that symbol
\* and not cleared since, None when there is none, and the DCA record last
\* written for it: an operation on one symbol changes no other symbol's
\* entry price or DCA record.
C27_EntryPricePerSymbol ==
    \A symbol \in StateSymbols :
        /\ get_entry_price(manager, symbol)
               = Get(expected.entry_prices, symbol, NoPrice)
        /\ get_entry_price(LoadState(state_path), symbol)
               = Get(expected.entry_prices, symbol, NoPrice)
        /\ get_dca_state(manager, symbol) = Get(expected.dca, symbol, <<>>)
        /\ get_dca_state(LoadState(state_path), symbol) = Get(expected.dca, symbol, <<>>)

\* the entry price of B-USD was cleared while E-USD keeps its entry price
\* and B-USD its DCA record
C27_ClearedOneOfTwo ==
    /\ reg.op = "clear_entry_price"
    /\ reg.key = <<"B">> \o USD
    /\ reg.had
    /\ get_entry_price(manager, <<"B">> \o USD) = NoPrice
    /\ get_entry_price(LoadState(state_path), <<"E">> \o USD) = 1000
    /\ get_dca_state(manager, <<"B">> \o USD) /= <<>>

\* C28: after remove_strategy(key) has returned True the engine holds
\* nothing for key: not in configs, not in the dispatch table and not in the
\* last-run schedule.
C28_RemoveDropsSchedule ==
    (reg.op = "remove" /\ reg.result = TRUE) =>
        /\ reg.key \notin DictKeys(configs)
        /\ reg.key \notin DictKeys(strategies)
        /\ reg.key \notin DOMAIN last_run

\* C29: an execution of the trailing-stop strategy calls no operation of
\* the client that places or cancels an order, and leaves the account, the
\* state in memory, the state file, the configs, the dispatch table and the
\* strategies file as they were.
C29_TrailingStopOnlyObserves ==
    [][exec'.strategy = "trailing_stop" =>
          /\ \A i \in DOMAIN exec'.calls : exec'.calls[i] \notin PlaceOps \cup CancelOps
          /\ exec'.buys = 0 /\ exec'.sells = 0
          /\ UNCHANGED <<holding, state, state_file, configs, strategies, storage_path,
                         manager, state_path>>]_vars

\* a trailing stop ran over a position with a recorded entry price, with
\* the price below the stop of a stop loss, and found the position's value
C29_TrailingStopSawFallingPrice ==
    /\ exec.strategy = "trailing_stop"
    /\ exec.calls = <<"get_crypto_price", "get_holdings", "get_crypto_price">>
    /\ exec.price = 949
    /\ exec.h1 /\ exec.p2
    /\ holding > 0
    /\ state.entry_price = 1000
    /\ state_file.entry_price = 1000

(***************************************************************************)
(* Properties of symbol normalization                                      *)
(***************************************************************************)
\* C30: normalize_symbol_to_usd applied to its own result returns that
\* result.
C30_NormalizeIdempotent == sym_pc = "twice" => sym_again = sym_out

\* " b-usd" was normalized to B-USD, and B-USD normalized again
C30_SpacedLowerCaseWithSuffix ==
    /\ sym_pc = "twice"
    /\ sym_arg = <<" ", "b", "-", "u", "s", "d">>
    /\ sym_out = <<"B">> \o USD

\* s matches ^[A-Z0-9]+-USD$
IsBaseUSD(s) ==
    /\ Len(s) > Len(USD)
    /\ SubSeq(s, Len(s) - Len(USD) + 1, Len(s)) = USD
    /\ \A i \in 1..(Len(s) - Len(USD)) : s[i] \in UpperOrDigit

\* C31: whatever normalize_symbol_to_usd returns matches ^[A-Z0-9]+-USD$.
C31_NormalizedIsBaseUSD == sym_pc /= "none" => IsBaseUSD(sym_out)

(***************************************************************************)
(* Properties of TradingBot.buy_crypto and sell_crypto                     *)
(***************************************************************************)
\* the validation of the last call fails: an invalid symbol format, a
\* non-positive amount, buying power below the amount (buy), no holding of
\* the symbol (sell), or a quantity to sell above the holding (sell)
BadSymbol == ~SymbolRe(Upper(Strip(trade.symbol)))
BadAmount == trade.amount.coef <= 0
ShortOfFunds == trade.op = "buy" /\ Less(trade.buying_power, trade.amount)
NotHeld == trade.op = "sell" /\ trade.holdings.kind /= "held"
Priced == trade.price_data.kind = "price" /\ trade.price_data.price.coef > 0
Unsizable == Priced /\ QuantizeRaises(TrueDiv(trade.amount, trade.price_data.price))
AboveHolding ==
    /\ trade.op = "sell"
    /\ trade.holdings.kind = "held"
    /\ Priced
    /\ trade.amount.coef > 0
    /\ Less(trade.holdings.quantity,
            QuantizeDown(TrueDiv(trade.amount, trade.price_data.price)))
ValidationFails == BadSymbol \/ BadAmount \/ ShortOfFunds \/ NotHeld \/ AboveHolding

C33_ClearedIffSold ==
    [][(/\ exec'.strategy = "stop_loss"
        /\ exec'.holding > 0 /\ exec'.entry /= NoPrice /\ exec'.price /= NoPrice
        /\ exec'.h1 /\ exec'.p2
        /\ Triggered(exec'.price, exec'.entry)) =>
          /\ exec'.sells <= 1
          /\ exec'.sell_ok => (exec'.sells = 1 /\ holding' = 0)
          /\ state'.entry_price = NoPrice <=> exec'.sell_ok
          /\ state_file'.entry_price = NoPrice <=> exec'.sell_ok
          /\ ~exec'.sell_ok =>
                /\ state'.entry_price = exec'.entry
                /\ state_file'.entry_price = exec'.entry
                /\ holding' = holding]_vars

\* the target of entry price 100.0 was hit at 110.0 and the market sell
\* returned no result: the entry price and the position are still there
C33_FailedSellKeepsEntry ==
    /\ PositionSeen
    /\ exec.entry = 1000
    /\ exec.price = 1100
    /\ exec.sells = 1
    /\ ~exec.sell_ok
    /\ state_file.entry_price = 1000
    /\ holding > 0

\* the DCA execution of this step issues no buy that returns a result: the
\* cap is reached, the interval has not elapsed, the buying power is below
\* amount_per_purchase, or the buy returned nothing
NoPurchase ==
    /\ exec'.strategy = "dca"
    /\ \/ (dca_config.max_purchases /= 0 /\ exec'.count >= dca_config.max_purchases)
       \/ (exec'.last /= NoTime /\ exec'.start < exec'.last + Interval)
       \/ exec'.bp < amount_per_purchase
       \/ ~exec'.buy_ok

\* C34: a DCA execution that issues no buy, or whose buy returns no result,
\* leaves purchase_count and last_purchase_at as they were, in memory and in
\* the state file.
C34_NoPurchaseNoRecord ==
    [][NoPurchase =>
          /\ state'.purchase_count = state.purchase_count
          /\ state'.last_purchase_at = state.last_purchase_at
          /\ state_file'.purchase_count = state_file.purchase_count
          /\ state_file'.last_purchase_at = state_file.last_purchase_at
          /\ exec'.count = state.purchase_count]_vars

\* after one recorded purchase, a buy with enough buying power returned no
\* result and the record still shows one purchase
C34_FailedBuyNotCounted ==
    /\ DcaRan
    /\ exec.buys = 1
    /\ ~exec.buy_ok
    /\ exec.bp >= amount_per_purchase
    /\ exec.count = 1
    /\ state_file.purchase_count = 1
    /\ state_file.last_purchase_at = exec.last

(***************************************************************************)
(* Further properties of the polling loop                                  *)
(***************************************************************************)
\* C35: a KeyboardInterrupt during a strategy execution, or during the
\* sleep between two ticks (a sleep that ends before PollSeconds), ends the
\* loop with running = False; the strategies still to be visited in the
\* tick are not executed and no last_run is written; and no strategy is
\* executed while the loop is stopped, until start() is called again.
C35_InterruptStopsLoop ==
    [][/\ step'.outcome = "KeyboardInterrupt" =>
             /\ ~running' /\ loop_pc' = "stopped" /\ todo' = <<>>
             /\ last_run' = last_run
       /\ (loop_pc = "iter" /\ todo = <<>> /\ now' - now < PollSeconds) =>
             ~running' /\ loop_pc' = "stopped"
       /\ (step' /= step /\ step'.executed) => (running /\ loop_pc = "iter")
       /\ (loop_pc = "stopped" /\ loop_pc' /= "stopped") => (~running /\ running')]_vars

\* the first of two strategies was interrupted: the loop is stopped and the
\* second, still to be visited, was not executed
C35_InterruptedBeforeSibling ==
    /\ step.outcome = "KeyboardInterrupt"
    /\ step.rest /= <<>>
    /\ ~running
    /\ loop_pc = "stopped"
    /\ last_exec = <<>>

(***************************************************************************)
(* Further properties of the strategies file                               *)
(***************************************************************************)
\* the entries of the file last loaded, the strategy_type tag of an entry,
\* and the entries whose tag is one of the engine's types
Entries == fresh.file.data.members.strategies.items
TagOf(item) == Get(item.members, "strategy_type", "")
Known == {i \in DOMAIN Entries : TagOf(Entries[i]) \in StrategyTypes}

\* the file holds entries, and those with a known tag are entries of their
\* dataclass
Loadable ==
    /\ WellFormed(fresh.file)
    /\ \A i \in Known :
          DOMAIN Entries[i].members \ {"strategy_type"}
              \subseteq FieldsOf(ClassOf(TagOf(Entries[i])))

\* C36: load skips the entries whose strategy_type is none of stop_loss,
\* dca, trailing_stop (or is missing) and returns every other entry under
\* the key of its type and symbol; load_strategies files each of them under
\* the key of its type and normalized symbol.
C36_UnknownTypeSkipped ==
    (fresh.after /= "none" /\ Loadable) =>
        /\ fresh.result.raised = "none"
        /\ DictKeys(fresh.result.value)
              = {Key(TagOf(Entries[i]), Entries[i].members.symbol) : i \in Known}
        /\ \A i \in Known :
              DictGet(fresh.result.value,
                      Key(TagOf(Entries[i]), Entries[i].members.symbol)).class
                  = ClassOf(TagOf(Entries[i]))
        /\ fresh.engine.raised = "none"
        /\ DictKeys(fresh.engine.value)
              = {Key(TagOf(Entries[i]), normalize_symbol_to_usd(Entries[i].members.symbol)) :
                   i \in Known}

\* a file with four entries, one of an unknown type and one of no type, was
\* loaded: the two others are in the engine
C36_TwoOfFourLoaded ==
    /\ fresh.after /= "none"
    /\ Loadable
    /\ Len(Entries) = 4
    /\ Cardinality(Known) = 2
    /\ Len(fresh.result.value) = 2
    /\ DictKeys(fresh.engine.value)
          = {Key("dca", <<"E">> \o USD), Key("stop_loss", <<"B">> \o USD)}

\* the keys, of type and normalized symbol, of the strategies a file holds
PersistedKeys(file) == DictKeys(LoadInto(load(file).value, <<>>, <<>>).configs)

\* C37: an add_*_strategy leaves in the strategies file every strategy that
\* was in it before under another key, and the new one.
C37_AddPreservesOthers ==
    [][reg'.op = "add" =>
          /\ reg'.key \in PersistedKeys(storage_path')
          /\ PersistedKeys(storage_path) \subseteq PersistedKeys(storage_path')]_vars

\* C38: an execution of the stop-loss strategy that starts with an entry
\* price recorded for the symbol issues no market buy.
C38_NoBuyWhileEntryRecorded ==
    (StopLossRan /\ exec.entry /= NoPrice) => exec.buys = 0

\* C39: the first attempt of a call that starts after a cooldown has elapsed,
\* with no failed attempt since the end of that cooldown, does not set
\* circuit_open_until again (CIRCUIT_BREAKER_THRESHOLD is above 1).
C39_OneFailureAfterCooldown ==
    [][(/\ pc = "inflight"
        /\ attempts = 1
        /\ circuit_open_until > 0
        /\ call.start >= circuit_open_until
        /\ last_fail < circuit_open_until
        /\ CIRCUIT_BREAKER_THRESHOLD > 1)
          => circuit_open_until' = circuit_open_until]_vars

(***************************************************************************)
(* Progress of the polling loop                                            *)
(***************************************************************************)
\* strategy k is registered and enabled
EnabledStrategy(k) ==
    /\ k \in DictKeys(strategies)
    /\ k \in DictKeys(configs)
    /\ DictGet(configs, k).enabled

\* the loop has been left by a KeyboardInterrupt, in a strategy or in the sleep
Interrupted ==
    /\ loop_pc = "stopped"
    /\ step.outcome = "KeyboardInterrupt" \/ step = NoStep

\* the number of ticks that have to start before k is executed at the
\* latest: none when k is due and still to be visited in this tick, else as
\* many as it takes for check_interval to elapse with one sleep per tick
TicksNeeded(k) ==
    LET last == Get(last_run, k, 0)
        check_interval == DictGet(configs, k).check_interval
    IN IF loop_pc = "iter"
       THEN IF k \in DictKeys(todo) /\ Due(tick, last, check_interval) THEN 0
            ELSE IF Due(now + PollSeconds, last, check_interval) THEN 1
            ELSE 2
       ELSE IF Due(now, last, check_interval) THEN 1
            ELSE IF Due(now + PollSeconds, last, check_interval) THEN 2
            ELSE 3

\* the loop runs with k enabled, and the model's horizon is far enough
Awaiting(k) ==
    /\ loop_pc /= "stopped"
    /\ EnabledStrategy(k)
    /\ bot_ops + TicksNeeded(k) <= MaxBotOps

\* the loop has just executed k
Executed(k) == step.key = k /\ step.executed

\* from every point of the running loop on, each enabled strategy is
\* executed again unless the loop is interrupted
ExecutedAgain == \A k \in LoopKeys : Awaiting(k) ~> (Executed(k) \/ Interrupted)

====
